---- MODULE Spec2Model ----
(***************************************************************************)
(* Model of the memory-splat-visualiser job orchestration layer            *)
(* (src/src/sharpService.ts), of the photo/album store                      *)
(* (src/src/photoService.ts) and of the facade that drives both            *)
(* (src/src/main.ts, App.generateSplatsForPhotos).                          *)
(*                                                                         *)
(* Time is the value of Date.now() in milliseconds.  The program is         *)
(* single-threaded: one action is one task of the event loop, i.e. the      *)
(* code that runs from the delivery of an event (a fetch response, a        *)
(* timer, an IndexedDB success event, a UI event) to the next point where   *)
(* every running async function is suspended on such an event.             *)
(***************************************************************************)
EXTENDS Integers, Sequences, FiniteSets, TLC

\* ------------------------------------------------------------------------
\* Bounds of the model
\* ------------------------------------------------------------------------
MaxRequests == 2          \* request ids the backend hands out
MaxSubmitClock == 60000   \* latest Date.now() at which a submit is answered
MaxFetchCount == 2        \* resultFetches counts 0, 1, ..., MaxFetchCount-or-more

\* ------------------------------------------------------------------------
\* Program constants
\* ------------------------------------------------------------------------
DefaultTimeoutMs == 180000     \* 3 * 60 * 1000
BackoffBase == 1000
BackoffStep == 200
BackoffMax == 5000
StaleThreshold == 300000       \* 5 * 60 * 1000

\* Inputs of the environment
RequestIds == 1..MaxRequests
Polled == {1}                            \* the job SpecPoll follows
Delays == {0, 60000}                     \* time that passes until an event is delivered
Budgets == {1200, DefaultTimeoutMs}      \* timeoutMs arguments of waitForResult
PlyUrls == {"u", "v"}                    \* ply_url values of the result endpoint
ErrorMsgs == {"none", "backend_error"}   \* status.error: absent or a message
ImageUrls == {"img"}
StatusValues == {"pending", "processing", "completed", "failed"}
Transient == {"throw", "nonOK"}          \* fetch rejected / response.ok false

Min(a, b) == IF a < b THEN a ELSE b
Max(a, b) == IF a > b THEN a ELSE b

VARIABLES
  now,                \* Date.now()
  activeGenerations,  \* the tracker: requestId -> [imageUrl, startTime, photoId]
  nextRequestId,      \* next request_id the backend will hand out
  submits,            \* submit / submitBlob calls whose fetch is in flight
  wfr,                \* requestId -> the waitForResult call made for it
  photos,             \* photoService: the in-memory working set
  albums,             \* photoService: the in-memory album list
  currentAlbumId,     \* photoService: the current album
  dbPhotos,           \* IndexedDB store 'photos': id -> record
  dbAlbums,           \* IndexedDB store 'albums': id -> record
  nextPhotoId,        \* the next fresh photo id
  adds,               \* addPhotosFromFiles calls in progress
  switches,           \* switchAlbum calls in progress: their albumId arguments
  creates,            \* createAlbum calls in progress (album ids)
  updates,            \* updatePhotoSplatStatus calls made by a direct caller
  initCall,           \* the initPhotoService call: where it is, how often it ran
  onPhotosChangedCallback,  \* the photos-changed subscriber and what it got
  onAlbumsChangedCallback,  \* the albums-changed subscriber and what it got
  isGeneratingSplats, \* App.isGeneratingSplats
  gen,                \* the running generateSplatsForPhotos invocation
  sharp_jobs,         \* backend table 'sharp_jobs': id -> row
  handlers            \* backend submit handler invocations: where each is

pollVars == <<now, activeGenerations, nextRequestId, submits, wfr>>
storeVars == <<photos, albums, currentAlbumId, dbPhotos, dbAlbums, nextPhotoId,
               adds, switches, creates, updates, initCall, onPhotosChangedCallback,
               onAlbumsChangedCallback>>
callVars == <<updates, initCall>>
facadeVars == <<isGeneratingSplats, gen>>
backendVars == <<sharp_jobs, handlers>>
vars == <<now, activeGenerations, nextRequestId, submits, wfr,
          photos, albums, currentAlbumId, dbPhotos, dbAlbums, nextPhotoId,
          adds, switches, creates, updates, initCall, onPhotosChangedCallback,
          onAlbumsChangedCallback, isGeneratingSplats, gen,
          sharp_jobs, handlers>>

\* ------------------------------------------------------------------------
\* The tracker (Map operations)
\* ------------------------------------------------------------------------
MapSet(m, k, v) == [x \in DOMAIN m \cup {k} |-> IF x = k THEN v ELSE m[x]]
MapDelete(m, k) == [x \in DOMAIN m \ {k} |-> m[x]]

\* ------------------------------------------------------------------------
\* waitForResult
\* ------------------------------------------------------------------------
IdleCall ==
  [pc |-> "idle", start |-> 0, timeoutMs |-> 0, onProgress |-> FALSE,
   attempt |-> 0, checkedAt |-> 0, backoff |-> 0, wakeAt |-> 0,
   result |-> "none", error |-> "none",
   \* history of the call
   lastObs |-> "none", lastErr |-> "none", lastRes |-> "none",
   progressed |-> FALSE, resultFetches |-> 0,
   completedSeen |-> FALSE, failedSeen |-> FALSE, transientSeen |-> FALSE,
   script |-> 0]

\* the observation sequence of the end-to-end scenario
Script == <<"pending", "pending", "processing", "completed">>

\* position in Script after one more observation (-1: the run left the script)
ScriptStep(pos, obs) ==
  IF pos >= 0 /\ pos < Len(Script) /\ Script[pos + 1] = obs THEN pos + 1 ELSE -1

\* a backoff that counts the attempts from 0
BackoffFromZero(attempt) == Min(BackoffMax, BackoffBase + (attempt - 1) * BackoffStep)

\* const backoff = Math.min(5000, 1000 + attempt * 200)
Backoff(attempt) == Min(BackoffMax, BackoffBase + attempt * BackoffStep)

\* a loop test that still polls when the elapsed time equals the budget
LoopHeadInclusive(w, t) ==
  IF t - w.start <= w.timeoutMs
  THEN [w EXCEPT !.pc = "status", !.attempt = @ + 1, !.checkedAt = t,
                 !.progressed = FALSE]
  ELSE [w EXCEPT !.pc = "thrown", !.error = "sharp_timeout", !.checkedAt = t]

\* a loop test that measures the time since the previous test
LoopHeadSinceLastTest(w, t) ==
  IF t - w.checkedAt < w.timeoutMs
  THEN [w EXCEPT !.pc = "status", !.attempt = @ + 1, !.checkedAt = t,
                 !.progressed = FALSE]
  ELSE [w EXCEPT !.pc = "thrown", !.error = "sharp_timeout", !.checkedAt = t]

\* while (Date.now() - start < timeoutMs) { attempt++ ; fetch(status) ... }
\* ... throw new Error('sharp_timeout')
LoopHead(w, t) ==
  IF t - w.start < w.timeoutMs
  THEN [w EXCEPT !.pc = "status", !.attempt = @ + 1, !.checkedAt = t,
                 !.progressed = FALSE]
  ELSE [w EXCEPT !.pc = "thrown", !.error = "sharp_timeout", !.checkedAt = t]

\* const start = Date.now(); let attempt = 0; then the loop
CallWaitForResult(t, T, cb) ==
  LoopHead([IdleCall EXCEPT !.start = t, !.timeoutMs = T, !.onProgress = cb], t)

\* an iteration that ends without waiting: the next query is issued at once
ToSleepSkipped(w, t) ==
  LoopHead([w EXCEPT !.backoff = Backoff(w.attempt),
                     !.wakeAt = t + Backoff(w.attempt)], t)

\* the end of an iteration: await sleep(backoff)
ToSleep(w, t) ==
  [w EXCEPT !.pc = "sleep", !.backoff = Backoff(w.attempt),
            !.wakeAt = t + Backoff(w.attempt)]

\* The status fetch of the current iteration is answered with st
\* (a status value, or a transient failure) at time t.
OnStatus(w, st, err, t) ==
  LET seen == [w EXCEPT !.lastObs = st,
                        !.lastErr = IF st = "failed" THEN err ELSE "none",
                        !.script = ScriptStep(@, st)]
  IN CASE st \in Transient -> ToSleep([seen EXCEPT !.transientSeen = TRUE], t)
       [] st \in {"pending", "processing"} ->
            ToSleep([seen EXCEPT !.progressed = w.onProgress], t)
       [] st = "completed" ->
            [seen EXCEPT !.pc = "result", !.resultFetches = Min(@ + 1, MaxFetchCount),
                         !.completedSeen = TRUE]
       [] st = "failed" ->
            \* the Error thrown at line 155 is caught by the catch of line 158
            ToSleep([seen EXCEPT !.failedSeen = TRUE], t)

\* a tracker that also drops the job on a transient query failure
TrackerOnStatusEager(m, r, st) ==
  IF st \in {"failed"} \cup Transient THEN MapDelete(m, r) ELSE m

\* The tracker after the status observation st for request r
TrackerOnStatus(m, r, st) == IF st = "failed" THEN MapDelete(m, r) ELSE m

\* The result fetch is answered at time t: res is "ok", or a transient failure
OnResult(w, res, url, t) ==
  IF res = "ok"
  THEN [w EXCEPT !.pc = "returned", !.result = url, !.lastRes = res]
  ELSE \* 'Failed to get result' is thrown inside the try and caught
       ToSleep([w EXCEPT !.lastRes = res], t)

\* The backend: a job that is completed or failed stays so
BackendAnswers(w) ==
  IF w.completedSeen THEN {"completed"} \cup Transient
  ELSE IF w.failedSeen THEN {"failed"} \cup Transient
  ELSE StatusValues \cup Transient

\* a tracker that drops the job whatever the result fetch answered
TrackerOnResultAlways(m, r, res) == MapDelete(m, r)

\* activeGenerations.delete(requestId) after the result was read
TrackerOnResult(m, r, res) == IF res = "ok" THEN MapDelete(m, r) ELSE m

\* ------------------------------------------------------------------------
\* photoService: records, IndexedDB, pure parts
\* ------------------------------------------------------------------------
MaxPhotos == 2            \* photos that can be created
MaxRounds == 3            \* poll rounds of a facade job whose timer fires on time
TimerDelays == {0, DefaultTimeoutMs}   \* a timer fires on time, or the whole budget late
MaxInFlight == 2          \* calls of one store operation in progress at once
MaxInits == 2             \* runs of initPhotoService
NotifyWrap == 2           \* the subscriber's call counter wraps here

AlbumIds == {"album-1", "default"}       \* album ids, in key order
NewAlbumIds == {"album-1"}               \* ids createAlbum can generate
AlbumKeyOrder == <<"album-1", "default">>   \* IndexedDB returns records by key
FileLists == {<<"image">>, <<"other">>, <<"other", "image">>, <<"image", "image">>}

Images(files) == Cardinality({i \in DOMAIN files : files[i] = "image"})

RECURSIVE Ascending(_)
\* the elements of a set of numbers in increasing order
Ascending(S) ==
  IF S = {} THEN << >>
  ELSE LET m == CHOOSE x \in S : \A y \in S : x <= y
       IN <<m>> \o Ascending(S \ {m})

RemoveAt(q, i) == [k \in 1..(Len(q) - 1) |-> IF k < i THEN q[k] ELSE q[k + 1]]

\* a load that ignores the album index and returns every stored photo
LoadEveryPhoto(db, albumId) ==
  LET ids == Ascending(DOMAIN db)
  IN [k \in 1..Len(ids) |-> db[ids[k]]]

\* loadPhotosFromDB(albumId): index.getAll(albumId), records in key order
LoadPhotosFromDB(db, albumId) ==
  LET ids == Ascending({i \in DOMAIN db : db[i].albumId = albumId})
  IN [k \in 1..Len(ids) |-> db[ids[k]]]

\* a load that finds no album whatever the store holds
LoadNoAlbums(db) == << >>

\* loadAlbumsFromDB(): store.getAll(), records in key order
LoadAlbumsFromDB(db) ==
  LET keys == SelectSeq(AlbumKeyOrder, LAMBDA a : a \in DOMAIN db)
  IN [k \in 1..Len(keys) |-> db[keys[k]]]

DefaultAlbum == [id |-> "default", photoCount |-> 0, coverUrl |-> 0]

\* initPhotoService() run on the stores dbA (albums) and dbP (photos)
InitPhotoService(dbA, dbP) ==
  LET stored == LoadAlbumsFromDB(dbA)
      als == IF Len(stored) = 0 THEN <<DefaultAlbum>> ELSE stored
      dbA2 == IF Len(stored) = 0 THEN MapSet(dbA, "default", DefaultAlbum) ELSE dbA
  IN [albums |-> als, dbAlbums |-> dbA2, currentAlbumId |-> als[1].id,
      photos |-> LoadPhotosFromDB(dbP, als[1].id)]

\* photos.find(p => p.id === photoId)
Found(ps, id) == \E i \in DOMAIN ps : ps[i].id = id
FirstIdx(ps, id) ==
  CHOOSE i \in DOMAIN ps : ps[i].id = id /\ \A j \in 1..(i - 1) : ps[j].id # id

\* an update that sets the status and leaves splatUrl alone
MutateStatusOnly(ps, id, st, url) ==
  [i \in DOMAIN ps |->
     IF i = FirstIdx(ps, id) THEN [ps[i] EXCEPT !.splatStatus = st] ELSE ps[i]]

\* updatePhotoSplatStatus up to its await: photo.splatStatus = status;
\* if (splatUrl) photo.splatUrl = splatUrl
Mutate(ps, id, st, url) ==
  [i \in DOMAIN ps |->
     IF i = FirstIdx(ps, id)
     THEN [ps[i] EXCEPT !.splatStatus = st,
                        !.splatUrl = IF url # "none" THEN url ELSE @]
     ELSE ps[i]]

\* albums.find(a => a.id === targetAlbumId)
HasAlbum(als, a) == \E i \in DOMAIN als : als[i].id = a
AlbumOf(als, a) == als[CHOOSE i \in DOMAIN als : als[i].id = a]

\* album.photoCount += newPhotos.length;
\* if (!album.coverUrl && newPhotos.length > 0) album.coverUrl = newPhotos[0].url
CountPhotos(als, a, newPhotos) ==
  [i \in DOMAIN als |->
     IF als[i].id = a
     THEN [als[i] EXCEPT !.photoCount = @ + Len(newPhotos),
                         !.coverUrl = IF @ = 0 /\ Len(newPhotos) > 0
                                      THEN newPhotos[1].id ELSE @]
     ELSE als[i]]

NewPhoto(id, a) == [id |-> id, albumId |-> a, splatStatus |-> "pending", splatUrl |-> "none"]

RECURSIVE AddContinue(_, _, _, _, _)
\* addPhotosFromFiles from the top of its for loop to its next await (or to
\* its return): c is the call, ps / als the in-memory lists, nid counts the
\* photos created, id is what `photo-${Date.now()}-${Math.random()...}`
\* evaluates to for the photo this run of the loop creates.
AddContinue(ps, als, nid, id, c) ==
  IF c.files = << >>
  THEN IF HasAlbum(als, c.target)
       THEN [photos |-> ps, albums |-> CountPhotos(als, c.target, c.newPhotos),
             nid |-> nid, call |-> [c EXCEPT !.pc = "saveAlbum"]]
       ELSE [photos |-> ps, albums |-> als, nid |-> nid,
             call |-> [c EXCEPT !.pc = "returned"]]
  ELSE IF Head(c.files) # "image"
       THEN AddContinue(ps, als, nid, id, [c EXCEPT !.files = Tail(@)])
       ELSE [photos |-> Append(ps, NewPhoto(id, c.target)), albums |-> als,
             nid |-> nid + 1,
             call |-> [c EXCEPT !.files = Tail(@), !.pc = "savePhoto",
                                !.saving = NewPhoto(id, c.target),
                                !.newPhotos = Append(@, NewPhoto(id, c.target))]]

\* images of the calls in progress that have no id yet
RECURSIVE PendingImages(_)
PendingImages(q) ==
  IF q = << >> THEN 0 ELSE Images(Head(q).files) + PendingImages(Tail(q))

\* a notifier that never calls the subscriber
NotifySilent(cb, snapshot) == cb

\* if (onPhotosChangedCallback) onPhotosChangedCallback([...photos]):
\* cb.calls counts the calls (modulo NotifyWrap), cb.last is the snapshot
Notify(cb, snapshot) ==
  IF cb.set
  THEN [cb EXCEPT !.calls = (@ + 1) % NotifyWrap, !.last = snapshot]
  ELSE cb

\* let onPhotosChangedCallback = null
NoSubscriber == [set |-> FALSE, calls |-> 0, last |-> << >>]

StoreInit ==
  LET st == InitPhotoService(<< >>, << >>)
  IN /\ photos = st.photos
     /\ albums = st.albums
     /\ currentAlbumId = st.currentAlbumId
     /\ dbPhotos = << >>
     /\ dbAlbums = st.dbAlbums
     /\ nextPhotoId = 1
     /\ adds = << >>
     /\ switches = << >>
     /\ creates = {}
     /\ updates = << >>
     /\ initCall = [pc |-> "returned", runs |-> 1, album |-> st.currentAlbumId]
     /\ onPhotosChangedCallback = NoSubscriber
     /\ onAlbumsChangedCallback = NoSubscriber

IdleGen == [pc |-> "idle", cur |-> 0, todo |-> << >>, req |-> 0,
            url |-> "none", saving |-> NewPhoto(0, "none")]

FacadeInit ==
  /\ isGeneratingSplats = FALSE
  /\ gen = IdleGen

\* ------------------------------------------------------------------------
\* The backend submit handlers: api/sharp/submit.js (kind "url") and the
\* submit-file handler (kind "file").  An invocation h is suspended at
\* handlers[h].pc, one await per step; its requestId is h (the generated ids
\* are taken as fresh).  handlers[h].response is the HTTP status it answered
\* with (0: not yet), handlers[h].code the status a pending 'failed' update
\* will be followed by.  A supabase call resolves with or without an error
\* member; a fetch or a body read resolves or rejects.
\* ------------------------------------------------------------------------
MaxHandlers == 2          \* invocations of the submit handlers
HandlerIds == 1..MaxHandlers
HandlerKinds == {"url", "file"}
IdleHandler == [kind |-> "none", pc |-> "idle", response |-> 0, code |-> 0]

BackendInit ==
  /\ sharp_jobs = << >>
  /\ handlers = [h \in HandlerIds |-> IdleHandler]

\* supabase.from('sharp_jobs').update(fields).eq('id', id): rows that do not
\* exist are not created
UpdateJob(jobs, id, status, plyUrl) ==
  IF id \in DOMAIN jobs
  THEN [jobs EXCEPT ![id] = [status |-> status, ply_url |-> plyUrl]]
  ELSE jobs

\* return res.status(code).json(...)
Respond(rec, code) == [rec EXCEPT !.pc = "responded", !.response = code]

\* the catch block of submit.js: the job is updated to 'failed', then 500
SubmitCatch(rec) == [rec EXCEPT !.pc = "updFailed", !.code = 500]

\* the catch block of the submit-file handler: 500 at once
SubmitFileCatch(rec) == Respond(rec, 500)

HandlerCatch(rec) ==
  IF rec.kind = "url" THEN SubmitCatch(rec) ELSE SubmitFileCatch(rec)

\* the result endpoint for request_id id: 404 without a row, 400 while the
\* row is not 'completed', else 200 with the row's ply_url
ResultHandler(jobs, id) ==
  IF id \notin DOMAIN jobs THEN [code |-> 404, ply_url |-> "none"]
  ELSE IF jobs[id].status # "completed" THEN [code |-> 400, ply_url |-> "none"]
  ELSE [code |-> 200, ply_url |-> jobs[id].ply_url]

\* a POST reaches submit.js: credentials and imageUrl are checked, then the
\* insert of the job row starts
SubmitStart(h, configured, hasImageUrl) ==
  /\ handlers[h].pc = "idle"
  /\ handlers' = [handlers EXCEPT ![h] =
       LET rec == [IdleHandler EXCEPT !.kind = "url"]
       IN IF ~configured THEN Respond(rec, 500)
          ELSE IF ~hasImageUrl THEN Respond(rec, 400)
          ELSE [rec EXCEPT !.pc = "insert"]]
  /\ UNCHANGED sharp_jobs
  /\ UNCHANGED <<pollVars, storeVars, facadeVars>>

\* a POST reaches the submit-file handler: credentials are checked, then
\* parseMultipart(req) starts
SubmitFileStart(h, configured) ==
  /\ handlers[h].pc = "idle"
  /\ handlers' = [handlers EXCEPT ![h] =
       LET rec == [IdleHandler EXCEPT !.kind = "file"]
       IN IF ~configured THEN Respond(rec, 500)
          ELSE [rec EXCEPT !.pc = "parse"]]
  /\ UNCHANGED sharp_jobs
  /\ UNCHANGED <<pollVars, storeVars, facadeVars>>

\* parseMultipart resolved or rejected; the upload of the image starts
SubmitFileParsed(h, ok) ==
  /\ handlers[h].pc = "parse"
  /\ handlers' = [handlers EXCEPT ![h] =
       IF ok THEN [@ EXCEPT !.pc = "uploadImage"] ELSE SubmitFileCatch(@)]
  /\ UNCHANGED sharp_jobs
  /\ UNCHANGED <<pollVars, storeVars, facadeVars>>

\* the upload of the image answered: "ok", "error" (uploadError: 500 is
\* returned) or "throw"; after "ok" the insert of the job row starts
SubmitFileImageUploaded(h, out) ==
  /\ handlers[h].pc = "uploadImage"
  /\ handlers' = [handlers EXCEPT ![h] =
       IF out = "ok" THEN [@ EXCEPT !.pc = "insert"]
       ELSE IF out = "error" THEN Respond(@, 500)
       ELSE SubmitFileCatch(@)]
  /\ UNCHANGED sharp_jobs
  /\ UNCHANGED <<pollVars, storeVars, facadeVars>>

\* the insert of the row { id: requestId, status: 'processing' } answered,
\* with or without an error; either way the handler goes on to call Modal
HandlerInserted(h, ok) ==
  /\ handlers[h].pc = "insert"
  /\ sharp_jobs' = IF ok
                   THEN MapSet(sharp_jobs, h, [status |-> "processing", ply_url |-> "none"])
                   ELSE sharp_jobs
  /\ handlers' = [handlers EXCEPT ![h].pc = "modal"]
  /\ UNCHANGED <<pollVars, storeVars, facadeVars>>

\* the fetch of the Modal endpoint answered: "ok", "notOK" (!modalRes.ok)
\* or "throw" (the fetch rejected)
HandlerModalAnswered(h, out) ==
  /\ handlers[h].pc = "modal"
  /\ handlers' = [handlers EXCEPT ![h] =
       IF out = "ok" THEN [@ EXCEPT !.pc = "json"]
       ELSE IF out = "notOK" THEN [@ EXCEPT !.pc = "text"]
       ELSE HandlerCatch(@)]
  /\ UNCHANGED sharp_jobs
  /\ UNCHANGED <<pollVars, storeVars, facadeVars>>

\* modalRes.text() delivered the error text: the update to 'failed' starts,
\* 502 will follow
HandlerTextRead(h) ==
  /\ handlers[h].pc = "text"
  /\ handlers' = [handlers EXCEPT ![h] = [@ EXCEPT !.pc = "updFailed", !.code = 502]]
  /\ UNCHANGED sharp_jobs
  /\ UNCHANGED <<pollVars, storeVars, facadeVars>>

\* modalRes.json() delivered: with ply_data the upload of the PLY starts;
\* a body that is not JSON, or has no ply_data for Buffer.from, throws
HandlerJsonRead(h, ok) ==
  /\ handlers[h].pc = "json"
  /\ handlers' = [handlers EXCEPT ![h] =
       IF ok THEN [@ EXCEPT !.pc = "uploadPly"] ELSE HandlerCatch(@)]
  /\ UNCHANGED sharp_jobs
  /\ UNCHANGED <<pollVars, storeVars, facadeVars>>

\* the upload of the PLY answered: "ok" (the update to 'completed' starts),
\* "error" (the update to 'failed' starts, 500 will follow) or "throw"
HandlerPlyUploaded(h, out) ==
  /\ handlers[h].pc = "uploadPly"
  /\ handlers' = [handlers EXCEPT ![h] =
       IF out = "ok" THEN [@ EXCEPT !.pc = "updCompleted"]
       ELSE IF out = "error" THEN [@ EXCEPT !.pc = "updFailed", !.code = 500]
       ELSE HandlerCatch(@)]
  /\ UNCHANGED sharp_jobs
  /\ UNCHANGED <<pollVars, storeVars, facadeVars>>

\* the update to { status: 'completed', ply_url } answered, applied (ok) or
\* with an error member that the handler does not read: 200
HandlerCompletedSaved(h, url, ok) ==
  /\ handlers[h].pc = "updCompleted"
  /\ sharp_jobs' = IF ok THEN UpdateJob(sharp_jobs, h, "completed", url) ELSE sharp_jobs
  /\ handlers' = [handlers EXCEPT ![h] = Respond(@, 200)]
  /\ UNCHANGED <<pollVars, storeVars, facadeVars>>

\* the update to { status: 'failed' } answered, applied (ok) or with an
\* error member that the handler does not read: 502 or 500
HandlerFailedSaved(h, ok) ==
  /\ handlers[h].pc = "updFailed"
  /\ sharp_jobs' = IF ok THEN UpdateJob(sharp_jobs, h, "failed", "none") ELSE sharp_jobs
  /\ handlers' = [handlers EXCEPT ![h] = Respond(@, @.code)]
  /\ UNCHANGED <<pollVars, storeVars, facadeVars>>

BackendOutcomes == {"ok", "error", "throw"}
ModalOutcomes == {"ok", "notOK", "throw"}

BackendNext ==
  \/ \E h \in HandlerIds, c \in BOOLEAN, i \in BOOLEAN : SubmitStart(h, c, i)
  \/ \E h \in HandlerIds, c \in BOOLEAN : SubmitFileStart(h, c)
  \/ \E h \in HandlerIds, ok \in BOOLEAN : SubmitFileParsed(h, ok)
  \/ \E h \in HandlerIds, out \in BackendOutcomes : SubmitFileImageUploaded(h, out)
  \/ \E h \in HandlerIds, ok \in BOOLEAN : HandlerInserted(h, ok)
  \/ \E h \in HandlerIds, out \in ModalOutcomes : HandlerModalAnswered(h, out)
  \/ \E h \in HandlerIds : HandlerTextRead(h)
  \/ \E h \in HandlerIds, ok \in BOOLEAN : HandlerJsonRead(h, ok)
  \/ \E h \in HandlerIds, out \in BackendOutcomes : HandlerPlyUploaded(h, out)
  \/ \E h \in HandlerIds, u \in PlyUrls, ok \in BOOLEAN : HandlerCompletedSaved(h, u, ok)
  \/ \E h \in HandlerIds, ok \in BOOLEAN : HandlerFailedSaved(h, ok)

\* ------------------------------------------------------------------------
\* photoService: the operations, one action per task of the event loop
\* ------------------------------------------------------------------------
\* addPhotosFromFiles(files, albumId) up to its first await; albumId "none"
\* is the call without the second argument; ui: called by the upload handler;
\* at most limit calls are in progress; id is the id generated for the
\* photo this step creates: nextPhotoId when it is fresh, a smaller number
\* when timestamp and random suffix repeat those of an earlier photo
AddPhotosFromFiles(files, albumId, ui, limit, id) ==
  /\ Len(adds) < limit
  /\ id \in 1..nextPhotoId
  /\ nextPhotoId - 1 + PendingImages(adds) + Images(files) <= MaxPhotos
  /\ LET target == IF albumId # "none" THEN albumId
                   ELSE IF currentAlbumId # "null" THEN currentAlbumId
                   ELSE "default"
         c == [target |-> target, files |-> files, newPhotos |-> << >>,
               pc |-> "start", saving |-> NewPhoto(0, "none"), ui |-> ui]
         n == AddContinue(photos, albums, nextPhotoId, id, c)
     IN /\ photos' = n.photos
        /\ albums' = n.albums
        /\ nextPhotoId' = n.nid
        /\ adds' = IF n.call.pc = "returned" /\ ~ui THEN adds
                   ELSE Append(adds, n.call)
        /\ onPhotosChangedCallback' =
             IF n.call.pc = "returned"
             THEN Notify(onPhotosChangedCallback, n.photos)
             ELSE onPhotosChangedCallback
  /\ UNCHANGED <<currentAlbumId, dbPhotos, dbAlbums, switches, creates, callVars>>
  /\ UNCHANGED <<pollVars, facadeVars>>
  /\ UNCHANGED onAlbumsChangedCallback
  /\ UNCHANGED backendVars

\* savePhotoToDB(photo) of call i succeeded; the call runs on to its next await
AddPhotoSaved(i, id) ==
  /\ i \in DOMAIN adds
  /\ adds[i].pc = "savePhoto"
  /\ id \in 1..nextPhotoId
  /\ dbPhotos' = MapSet(dbPhotos, adds[i].saving.id, adds[i].saving)
  /\ LET n == AddContinue(photos, albums, nextPhotoId, id, adds[i])
     IN /\ photos' = n.photos
        /\ albums' = n.albums
        /\ nextPhotoId' = n.nid
        /\ adds' = IF n.call.pc = "returned" /\ ~n.call.ui THEN RemoveAt(adds, i)
                   ELSE [adds EXCEPT ![i] = n.call]
        /\ onPhotosChangedCallback' =
             IF n.call.pc = "returned"
             THEN Notify(onPhotosChangedCallback, n.photos)
             ELSE onPhotosChangedCallback
  /\ UNCHANGED <<currentAlbumId, dbAlbums, switches, creates, callVars>>
  /\ UNCHANGED <<pollVars, facadeVars>>
  /\ UNCHANGED onAlbumsChangedCallback
  /\ UNCHANGED backendVars

\* saveAlbumToDB(album) of call i succeeded: the album object is stored as it
\* is now; the call notifies and returns newPhotos
AddAlbumSaved(i) ==
  /\ i \in DOMAIN adds
  /\ adds[i].pc = "saveAlbum"
  /\ dbAlbums' = MapSet(dbAlbums, adds[i].target, AlbumOf(albums, adds[i].target))
  /\ adds' = IF adds[i].ui THEN [adds EXCEPT ![i].pc = "returned"]
             ELSE RemoveAt(adds, i)
  /\ onPhotosChangedCallback' = Notify(onPhotosChangedCallback, photos)
  /\ UNCHANGED <<photos, albums, currentAlbumId, dbPhotos, nextPhotoId, switches, creates>>
  /\ UNCHANGED callVars
  /\ UNCHANGED <<pollVars, facadeVars>>
  /\ UNCHANGED onAlbumsChangedCallback
  /\ UNCHANGED backendVars

\* switchAlbum(albumId) up to its await; at most limit calls are in progress
SwitchAlbum(a, limit) ==
  /\ Len(switches) < limit
  /\ currentAlbumId' = a
  /\ switches' = Append(switches, a)
  /\ UNCHANGED <<photos, albums, dbPhotos, dbAlbums, nextPhotoId, adds, creates>>
  /\ UNCHANGED <<callVars, onPhotosChangedCallback, onAlbumsChangedCallback>>
  /\ UNCHANGED <<pollVars, facadeVars>>
  /\ UNCHANGED backendVars

\* loadPhotosFromDB of the i-th switchAlbum call in progress delivered its
\* result: photos.length = 0; photos.push(...storedPhotos); notify; return
SwitchLoaded(i) ==
  /\ i \in DOMAIN switches
  /\ photos' = LoadPhotosFromDB(dbPhotos, switches[i])
  /\ switches' = RemoveAt(switches, i)
  /\ onPhotosChangedCallback' = Notify(onPhotosChangedCallback, photos')
  /\ UNCHANGED <<albums, currentAlbumId, dbPhotos, dbAlbums, nextPhotoId, adds, creates>>
  /\ UNCHANGED callVars
  /\ UNCHANGED <<pollVars, facadeVars>>
  /\ UNCHANGED onAlbumsChangedCallback
  /\ UNCHANGED backendVars

\* createAlbum(name) up to its await; id is the generated album id
CreateAlbum(id) ==
  /\ ~HasAlbum(albums, id)
  /\ albums' = Append(albums, [id |-> id, photoCount |-> 0, coverUrl |-> 0])
  /\ creates' = creates \cup {id}
  /\ UNCHANGED <<photos, currentAlbumId, dbPhotos, dbAlbums, nextPhotoId, adds, switches>>
  /\ UNCHANGED <<callVars, onPhotosChangedCallback, onAlbumsChangedCallback>>
  /\ UNCHANGED <<pollVars, facadeVars>>
  /\ UNCHANGED backendVars

\* saveAlbumToDB(album) of createAlbum succeeded; notify; return
CreateSaved(id) ==
  /\ id \in creates
  /\ dbAlbums' = MapSet(dbAlbums, id, AlbumOf(albums, id))
  /\ creates' = creates \ {id}
  /\ UNCHANGED <<photos, albums, currentAlbumId, dbPhotos, nextPhotoId, adds, switches>>
  /\ UNCHANGED <<callVars, onPhotosChangedCallback>>
  /\ UNCHANGED <<pollVars, facadeVars>>
  /\ onAlbumsChangedCallback' = Notify(onAlbumsChangedCallback, albums)
  /\ UNCHANGED backendVars

\* onPhotosChanged(callback): onPhotosChangedCallback = callback
OnPhotosChanged ==
  /\ ~onPhotosChangedCallback.set
  /\ onPhotosChangedCallback' = [onPhotosChangedCallback EXCEPT !.set = TRUE]
  /\ UNCHANGED <<photos, albums, currentAlbumId, dbPhotos, dbAlbums, nextPhotoId,
                 adds, switches, creates, callVars>>
  /\ UNCHANGED <<pollVars, facadeVars>>
  /\ UNCHANGED onAlbumsChangedCallback
  /\ UNCHANGED backendVars

\* onAlbumsChanged(callback): onAlbumsChangedCallback = callback
OnAlbumsChanged ==
  /\ ~onAlbumsChangedCallback.set
  /\ onAlbumsChangedCallback' = [onAlbumsChangedCallback EXCEPT !.set = TRUE]
  /\ UNCHANGED <<photos, albums, currentAlbumId, dbPhotos, dbAlbums, nextPhotoId,
                 adds, switches, creates, callVars, onPhotosChangedCallback>>
  /\ UNCHANGED <<pollVars, facadeVars>>
  /\ UNCHANGED backendVars

\* an update that calls the subscriber also when the photo is unknown
UpdatePhotoSplatStatusLoud(photoId, status, splatUrl, limit) ==
  /\ Len(updates) < limit
  /\ photos' = IF Found(photos, photoId)
               THEN Mutate(photos, photoId, status, splatUrl) ELSE photos
  /\ updates' = Append(updates,
       [photoId |-> photoId, status |-> status, splatUrl |-> splatUrl,
        pc |-> IF Found(photos, photoId) THEN "save" ELSE "returned",
        saving |-> IF Found(photos, photoId)
                   THEN photos'[FirstIdx(photos, photoId)] ELSE NewPhoto(0, "none")])
  /\ onPhotosChangedCallback' =
       IF Found(photos, photoId) THEN onPhotosChangedCallback
       ELSE Notify(onPhotosChangedCallback, photos)
  /\ UNCHANGED <<albums, currentAlbumId, dbPhotos, dbAlbums, nextPhotoId,
                 adds, switches, creates, initCall>>
  /\ UNCHANGED <<pollVars, facadeVars>>
  /\ UNCHANGED onAlbumsChangedCallback
  /\ UNCHANGED backendVars

\* updatePhotoSplatStatus(photoId, status, splatUrl) called by a direct
\* caller, up to its await; splatUrl "none" is the call without the third
\* argument.  When the photo is not found the call returns at once.  The
\* record stays in updates, with pc "returned", until the caller takes over.
UpdatePhotoSplatStatus(photoId, status, splatUrl, limit) ==
  /\ Len(updates) < limit
  /\ IF Found(photos, photoId)
     THEN LET ps2 == Mutate(photos, photoId, status, splatUrl)
          IN /\ photos' = ps2
             /\ updates' = Append(updates,
                  [photoId |-> photoId, status |-> status, splatUrl |-> splatUrl,
                   pc |-> "save", saving |-> ps2[FirstIdx(ps2, photoId)]])
     ELSE /\ photos' = photos
          /\ updates' = Append(updates,
                  [photoId |-> photoId, status |-> status, splatUrl |-> splatUrl,
                   pc |-> "returned", saving |-> NewPhoto(0, "none")])
  /\ UNCHANGED <<albums, currentAlbumId, dbPhotos, dbAlbums, nextPhotoId,
                 adds, switches, creates, initCall, onPhotosChangedCallback, onAlbumsChangedCallback>>
  /\ UNCHANGED <<pollVars, facadeVars>>
  /\ UNCHANGED backendVars

\* savePhotoToDB(photo) of the i-th direct updatePhotoSplatStatus call
\* succeeded; the subscriber is called; the call returns
UpdateSaved(i) ==
  /\ i \in DOMAIN updates
  /\ updates[i].pc = "save"
  /\ dbPhotos' = MapSet(dbPhotos, updates[i].saving.id, updates[i].saving)
  /\ onPhotosChangedCallback' = Notify(onPhotosChangedCallback, photos)
  /\ updates' = [updates EXCEPT ![i].pc = "returned"]
  /\ UNCHANGED <<photos, albums, currentAlbumId, dbAlbums, nextPhotoId,
                 adds, switches, creates, initCall>>
  /\ UNCHANGED <<pollVars, facadeVars>>
  /\ UNCHANGED onAlbumsChangedCallback
  /\ UNCHANGED backendVars

\* the caller that awaited the i-th updatePhotoSplatStatus call runs on
UpdateReturned(i) ==
  /\ i \in DOMAIN updates
  /\ updates[i].pc = "returned"
  /\ updates' = RemoveAt(updates, i)
  /\ UNCHANGED <<photos, albums, currentAlbumId, dbPhotos, dbAlbums, nextPhotoId,
                 adds, switches, creates, initCall, onPhotosChangedCallback, onAlbumsChangedCallback>>
  /\ UNCHANGED <<pollVars, facadeVars>>
  /\ UNCHANGED backendVars

\* initPhotoService() up to its first await (loadAlbumsFromDB)
InitCall ==
  /\ initCall.pc \in {"idle", "returned"}
  /\ initCall.runs < MaxInits
  /\ initCall' = [initCall EXCEPT !.pc = "loadAlbums", !.runs = @ + 1]
  /\ UNCHANGED <<photos, albums, currentAlbumId, dbPhotos, dbAlbums, nextPhotoId,
                 adds, switches, creates, updates, onPhotosChangedCallback, onAlbumsChangedCallback>>
  /\ UNCHANGED <<pollVars, facadeVars>>
  /\ UNCHANGED backendVars

\* loadAlbumsFromDB delivered: albums.length = 0; albums.push(...stored);
\* with no album the default album is pushed and saveAlbumToDB starts,
\* otherwise currentAlbumId = albums[0].id and loadPhotosFromDB starts
InitAlbumsLoaded ==
  /\ initCall.pc = "loadAlbums"
  /\ LET stored == LoadAlbumsFromDB(dbAlbums)
     IN IF Len(stored) = 0
        THEN /\ albums' = <<DefaultAlbum>>
             /\ initCall' = [initCall EXCEPT !.pc = "saveDefault"]
             /\ UNCHANGED currentAlbumId
        ELSE /\ albums' = stored
             /\ currentAlbumId' = stored[1].id
             /\ initCall' = [initCall EXCEPT !.pc = "loadPhotos", !.album = stored[1].id]
  /\ UNCHANGED <<photos, dbPhotos, dbAlbums, nextPhotoId,
                 adds, switches, creates, updates, onPhotosChangedCallback, onAlbumsChangedCallback>>
  /\ UNCHANGED <<pollVars, facadeVars>>
  /\ UNCHANGED backendVars

\* saveAlbumToDB(defaultAlbum) succeeded: currentAlbumId = albums[0].id and
\* loadPhotosFromDB(currentAlbumId) starts
InitDefaultSaved ==
  /\ initCall.pc = "saveDefault"
  /\ dbAlbums' = MapSet(dbAlbums, "default", AlbumOf(albums, "default"))
  /\ currentAlbumId' = albums[1].id
  /\ initCall' = [initCall EXCEPT !.pc = "loadPhotos", !.album = albums[1].id]
  /\ UNCHANGED <<photos, albums, dbPhotos, nextPhotoId,
                 adds, switches, creates, updates, onPhotosChangedCallback, onAlbumsChangedCallback>>
  /\ UNCHANGED <<pollVars, facadeVars>>
  /\ UNCHANGED backendVars

\* loadPhotosFromDB delivered: photos.length = 0; photos.push(...stored); return
InitPhotosLoaded ==
  /\ initCall.pc = "loadPhotos"
  /\ photos' = LoadPhotosFromDB(dbPhotos, initCall.album)
  /\ initCall' = [initCall EXCEPT !.pc = "returned"]
  /\ UNCHANGED <<albums, currentAlbumId, dbPhotos, dbAlbums, nextPhotoId,
                 adds, switches, creates, updates, onPhotosChangedCallback, onAlbumsChangedCallback>>
  /\ UNCHANGED <<pollVars, facadeVars>>
  /\ UNCHANGED backendVars

\* ------------------------------------------------------------------------
\* The service called on its own: one job is submitted, then polled
\* ------------------------------------------------------------------------
PollInit ==
  /\ now = 0
  /\ activeGenerations = << >>
  /\ nextRequestId = 1
  /\ submits = {}
  /\ wfr = [r \in RequestIds |-> IdleCall]
  /\ StoreInit
  /\ BackendInit
  /\ FacadeInit

\* submit(imageUrl) / submitBlob(blob, filename) up to the await of fetch
SubmitCall(kind, url, ids) ==
  /\ nextRequestId \in ids
  /\ submits = {}
  /\ submits' = submits \cup {[kind |-> kind, imageUrl |-> url]}
  /\ UNCHANGED <<now, activeGenerations, nextRequestId, wfr>>
  /\ UNCHANGED <<storeVars, facadeVars>>
  /\ UNCHANGED backendVars

\* an entry that carries no time stamp of its registration
NewEntryUnstamped(kind, url, t) ==
  [imageUrl |-> IF kind = "blob" THEN "blob:" \o url ELSE url,
   startTime |-> 0, photoId |-> "undefined"]

\* the tracker entry written by submit / submitBlob
NewEntry(kind, url, t) ==
  [imageUrl |-> IF kind = "blob" THEN "blob:" \o url ELSE url,
   startTime |-> t, photoId |-> "undefined"]

\* the submit fetch resolved with an OK response carrying a fresh request_id
SubmitOk(s, d) ==
  /\ s \in submits
  /\ nextRequestId <= MaxRequests
  /\ now + d <= MaxSubmitClock
  /\ now' = now + d
  /\ submits' = submits \ {s}
  /\ activeGenerations' =
       MapSet(activeGenerations, nextRequestId, NewEntry(s.kind, s.imageUrl, now'))
  /\ nextRequestId' = nextRequestId + 1
  /\ UNCHANGED <<wfr>>
  /\ UNCHANGED <<storeVars, facadeVars>>
  /\ UNCHANGED backendVars

\* the submit fetch rejected, or the response was not OK: the call throws
SubmitFail(s, d) ==
  /\ s \in submits
  /\ now + d <= MaxSubmitClock
  /\ now' = now + d
  /\ submits' = submits \ {s}
  /\ UNCHANGED <<activeGenerations, nextRequestId, wfr>>
  /\ UNCHANGED <<storeVars, facadeVars>>
  /\ UNCHANGED backendVars

WaitForResult(r, T, cb) ==
  /\ r < nextRequestId
  /\ wfr[r].pc = "idle"
  /\ wfr' = [wfr EXCEPT ![r] = CallWaitForResult(now, T, cb)]
  /\ UNCHANGED <<now, activeGenerations, nextRequestId, submits>>
  /\ UNCHANGED <<storeVars, facadeVars>>
  /\ UNCHANGED backendVars

StatusResponse(r, st, err, d) ==
  /\ wfr[r].pc = "status"
  /\ st \in BackendAnswers(wfr[r])
  /\ now' = now + d
  /\ wfr' = [wfr EXCEPT ![r] = OnStatus(wfr[r], st, err, now')]
  /\ activeGenerations' = TrackerOnStatus(activeGenerations, r, st)
  /\ UNCHANGED <<nextRequestId, submits>>
  /\ UNCHANGED <<storeVars, facadeVars>>
  /\ UNCHANGED backendVars

ResultResponse(r, res, url, d) ==
  /\ wfr[r].pc = "result"
  /\ now' = now + d
  /\ wfr' = [wfr EXCEPT ![r] = OnResult(wfr[r], res, url, now')]
  /\ activeGenerations' = TrackerOnResult(activeGenerations, r, res)
  /\ UNCHANGED <<nextRequestId, submits>>
  /\ UNCHANGED <<storeVars, facadeVars>>
  /\ UNCHANGED backendVars

\* the timer of sleep(backoff) fires, at wakeAt or later
SleepDone(r, d) ==
  /\ wfr[r].pc = "sleep"
  /\ now' = Max(now, wfr[r].wakeAt) + d
  /\ wfr' = [wfr EXCEPT ![r] = LoopHead(wfr[r], now')]
  /\ UNCHANGED <<activeGenerations, nextRequestId, submits>>
  /\ UNCHANGED <<storeVars, facadeVars>>
  /\ UNCHANGED backendVars

PollNext ==
  \/ \E k \in {"url", "blob"}, u \in ImageUrls : SubmitCall(k, u, Polled)
  \/ \E s \in submits, d \in Delays : SubmitOk(s, d)
  \/ \E s \in submits, d \in Delays : SubmitFail(s, d)
  \/ \E r \in Polled, T \in Budgets, cb \in BOOLEAN : WaitForResult(r, T, cb)
  \/ \E r \in RequestIds, st \in StatusValues \cup Transient, e \in ErrorMsgs, d \in Delays :
       StatusResponse(r, st, e, d)
  \/ \E r \in RequestIds, res \in {"ok"} \cup Transient, u \in PlyUrls, d \in Delays :
       ResultResponse(r, res, u, d)
  \/ \E r \in RequestIds, d \in Delays : SleepDone(r, d)

SpecPoll == PollInit /\ [][PollNext]_vars

\* the backend on its own: the handlers run, the client does nothing
SpecBackend == PollInit /\ [][BackendNext]_vars

\* Every request of a call is answered or fails, and every timer the call
\* set fires: fetch and setTimeout settle their promises, and the event loop
\* runs the continuation of an await that has settled
PollFairness ==
  \A r \in Polled :
    /\ WF_vars(\E st \in StatusValues \cup Transient, e \in ErrorMsgs, d \in Delays :
                 StatusResponse(r, st, e, d))
    /\ WF_vars(\E res \in {"ok"} \cup Transient, u \in PlyUrls, d \in Delays :
                 ResultResponse(r, res, u, d))
    /\ WF_vars(\E d \in Delays : SleepDone(r, d))

SpecPollFair == PollInit /\ [][PollNext]_vars /\ PollFairness

\* ------------------------------------------------------------------------
\* App.generateSplatsForPhotos (main.ts).  The invocation is suspended at
\* gen.pc: "upd_processing" / "upd_ready" / "upd_failed" (the savePhotoToDB
\* of updatePhotoSplatStatus), "submit" (the fetch of submitBlob) or "poll"
\* (inside waitForResult for gen.req).  gen.todo are the photos of the batch
\* not yet visited, gen.cur is the id of the photo being converted.
\* ------------------------------------------------------------------------
RECURSIVE Iterate(_, _)
\* the for loop from its top to the next await: photos that are not pending
\* are skipped; updatePhotoSplatStatus(id, "processing") returns at once when
\* the photo is not in the working set, and then submitBlob starts its fetch
Iterate(ps, todo) ==
  IF todo = << >>
  THEN [photos |-> ps, gen |-> IdleGen, flag |-> FALSE]
  ELSE IF Head(todo).splatStatus # "pending"
       THEN Iterate(ps, Tail(todo))
       ELSE LET id == Head(todo).id
                g == [IdleGen EXCEPT !.cur = id, !.todo = Tail(todo)]
            IN IF Found(ps, id)
               THEN LET ps2 == Mutate(ps, id, "processing", "none")
                    IN [photos |-> ps2,
                        gen |-> [g EXCEPT !.pc = "upd_processing",
                                          !.saving = ps2[FirstIdx(ps2, id)]],
                        flag |-> TRUE]
               ELSE [photos |-> ps, gen |-> [g EXCEPT !.pc = "submit"], flag |-> TRUE]

\* the catch block: await updatePhotoSplatStatus(photo.id, "failed")
Catch(ps, g) ==
  IF Found(ps, g.cur)
  THEN LET ps2 == Mutate(ps, g.cur, "failed", "none")
       IN [photos |-> ps2,
           gen |-> [g EXCEPT !.pc = "upd_failed", !.saving = ps2[FirstIdx(ps2, g.cur)]],
           flag |-> TRUE]
  ELSE Iterate(ps, g.todo)

\* after updatePhotoSplatStatus(photo.id, "ready", url) has returned:
\* this.canvas.addSplat(...) returns (viewerOk) or throws into the catch block
AfterReady(ps, g, viewerOk) ==
  IF viewerOk THEN Iterate(ps, g.todo) ELSE Catch(ps, g)

\* generateSplatFromBlob has returned url:
\* await updatePhotoSplatStatus(photo.id, "ready", result.plyUrl)
OnReturned(ps, g, url, viewerOk) ==
  IF Found(ps, g.cur)
  THEN LET ps2 == Mutate(ps, g.cur, "ready", url)
       IN [photos |-> ps2,
           gen |-> [g EXCEPT !.pc = "upd_ready", !.url = url,
                             !.saving = ps2[FirstIdx(ps2, g.cur)]],
           flag |-> TRUE]
  ELSE AfterReady(ps, [g EXCEPT !.url = url], viewerOk)

\* the waitForResult call of the job the invocation has left is over: when
\* the invocation moves from g to g2 the activation of g.req is dropped
Release(w, g, g2) ==
  IF g.req # 0 /\ g2.req # g.req THEN [w EXCEPT ![g.req] = IdleCall] ELSE w

\* the upload handler calls generateSplatsForPhotos(newPhotos) after
\* addPhotosFromFiles and reloadPhotos have returned
UploadGenerate(i) ==
  /\ i \in DOMAIN adds
  /\ adds[i].pc = "returned"
  /\ adds' = RemoveAt(adds, i)
  /\ IF isGeneratingSplats
     THEN UNCHANGED <<photos, gen, isGeneratingSplats>>
     ELSE LET n == Iterate(photos, adds[i].newPhotos)
          IN /\ photos' = n.photos
             /\ gen' = n.gen
             /\ isGeneratingSplats' = n.flag
  /\ UNCHANGED <<albums, currentAlbumId, dbPhotos, dbAlbums, nextPhotoId, switches, creates>>
  /\ UNCHANGED <<callVars, onPhotosChangedCallback, onAlbumsChangedCallback>>
  /\ UNCHANGED pollVars
  /\ UNCHANGED backendVars

\* savePhotoToDB of updatePhotoSplatStatus(id, "processing") succeeded;
\* generateSplatFromBlob -> submitBlob starts its fetch
GenProcessingSaved ==
  /\ gen.pc = "upd_processing"
  /\ dbPhotos' = MapSet(dbPhotos, gen.saving.id, gen.saving)
  /\ gen' = [gen EXCEPT !.pc = "submit"]
  /\ onPhotosChangedCallback' = Notify(onPhotosChangedCallback, photos)
  /\ UNCHANGED <<photos, albums, currentAlbumId, dbAlbums, nextPhotoId, adds,
                 switches, creates, callVars, isGeneratingSplats>>
  /\ UNCHANGED pollVars
  /\ UNCHANGED onAlbumsChangedCallback
  /\ UNCHANGED backendVars

\* savePhotoToDB of updatePhotoSplatStatus(id, "ready", url) succeeded
GenReadySaved(viewerOk) ==
  /\ gen.pc = "upd_ready"
  /\ dbPhotos' = MapSet(dbPhotos, gen.saving.id, gen.saving)
  /\ LET n == AfterReady(photos, gen, viewerOk)
     IN /\ photos' = n.photos
        /\ gen' = n.gen
        /\ isGeneratingSplats' = n.flag
        /\ wfr' = Release(wfr, gen, n.gen)
  /\ onPhotosChangedCallback' = Notify(onPhotosChangedCallback, photos)
  /\ UNCHANGED <<albums, currentAlbumId, dbAlbums, nextPhotoId, adds, switches, creates>>
  /\ UNCHANGED callVars
  /\ UNCHANGED <<now, activeGenerations, nextRequestId, submits>>
  /\ UNCHANGED onAlbumsChangedCallback
  /\ UNCHANGED backendVars

\* savePhotoToDB of updatePhotoSplatStatus(id, "failed") succeeded
GenFailedSaved ==
  /\ gen.pc = "upd_failed"
  /\ dbPhotos' = MapSet(dbPhotos, gen.saving.id, gen.saving)
  /\ LET n == Iterate(photos, gen.todo)
     IN /\ photos' = n.photos
        /\ gen' = n.gen
        /\ isGeneratingSplats' = n.flag
        /\ wfr' = Release(wfr, gen, n.gen)
  /\ onPhotosChangedCallback' = Notify(onPhotosChangedCallback, photos)
  /\ UNCHANGED <<albums, currentAlbumId, dbAlbums, nextPhotoId, adds, switches, creates>>
  /\ UNCHANGED callVars
  /\ UNCHANGED <<now, activeGenerations, nextRequestId, submits>>
  /\ UNCHANGED onAlbumsChangedCallback
  /\ UNCHANGED backendVars

\* the fetch of submitBlob resolved OK: the job is registered and
\* waitForResult(requestId, 3 * 60 * 1000, onProgress) issues its first query
GenSubmitOk ==
  /\ gen.pc = "submit"
  /\ nextRequestId <= MaxRequests
  /\ activeGenerations' =
       MapSet(activeGenerations, nextRequestId, NewEntry("blob", "name", now))
  /\ wfr' = [wfr EXCEPT ![nextRequestId] = CallWaitForResult(now, DefaultTimeoutMs, TRUE)]
  /\ nextRequestId' = nextRequestId + 1
  /\ gen' = [gen EXCEPT !.pc = "poll", !.req = nextRequestId]
  /\ UNCHANGED <<now, submits, isGeneratingSplats>>
  /\ UNCHANGED storeVars
  /\ UNCHANGED backendVars

\* the fetch of submitBlob rejected or was not OK: submitBlob throws
GenSubmitFail ==
  /\ gen.pc = "submit"
  /\ LET n == Catch(photos, gen)
     IN /\ photos' = n.photos
        /\ gen' = n.gen
        /\ isGeneratingSplats' = n.flag
  /\ UNCHANGED <<now, activeGenerations, nextRequestId, submits, wfr>>
  /\ UNCHANGED <<albums, currentAlbumId, dbPhotos, dbAlbums, nextPhotoId, adds, switches, creates>>
  /\ UNCHANGED <<callVars, onPhotosChangedCallback, onAlbumsChangedCallback>>
  /\ UNCHANGED backendVars

\* a status query of the facade's waitForResult call is answered
GenStatusResponse(st, err) ==
  /\ gen.pc = "poll"
  /\ StatusResponse(gen.req, st, err, 0)

\* the result fetch of the facade's waitForResult call is answered
GenResultResponse(res, url, viewerOk) ==
  /\ gen.pc = "poll"
  /\ wfr[gen.req].pc = "result"
  /\ activeGenerations' = TrackerOnResult(activeGenerations, gen.req, res)
  /\ LET w == OnResult(wfr[gen.req], res, url, now)
     IN IF w.pc = "returned"
        THEN LET n == OnReturned(photos, gen, w.result, viewerOk)
             IN /\ photos' = n.photos
                /\ gen' = n.gen
                /\ isGeneratingSplats' = n.flag
                /\ wfr' = Release([wfr EXCEPT ![gen.req] = w], gen, n.gen)
        ELSE /\ wfr' = [wfr EXCEPT ![gen.req] = w]
             /\ UNCHANGED <<photos, gen, isGeneratingSplats>>
  /\ UNCHANGED <<now, nextRequestId, submits>>
  /\ UNCHANGED <<albums, currentAlbumId, dbPhotos, dbAlbums, nextPhotoId, adds, switches, creates>>
  /\ UNCHANGED <<callVars, onPhotosChangedCallback, onAlbumsChangedCallback>>
  /\ UNCHANGED backendVars

\* the backoff timer of the facade's waitForResult call fires; after
\* MaxRounds rounds the timer is late, which ends the call as a timeout
GenSleepDone(d) ==
  /\ gen.pc = "poll"
  /\ wfr[gen.req].pc = "sleep"
  /\ d = 0 => wfr[gen.req].attempt <= MaxRounds
  /\ now' = Max(now, wfr[gen.req].wakeAt) + d
  /\ LET w == LoopHead(wfr[gen.req], now')
     IN IF w.pc = "thrown"
        THEN LET n == Catch(photos, gen)
             IN /\ photos' = n.photos
                /\ gen' = n.gen
                /\ isGeneratingSplats' = n.flag
                /\ wfr' = Release([wfr EXCEPT ![gen.req] = w], gen, n.gen)
        ELSE /\ wfr' = [wfr EXCEPT ![gen.req] = w]
             /\ UNCHANGED <<photos, gen, isGeneratingSplats>>
  /\ UNCHANGED <<activeGenerations, nextRequestId, submits>>
  /\ UNCHANGED <<albums, currentAlbumId, dbPhotos, dbAlbums, nextPhotoId, adds, switches, creates>>
  /\ UNCHANGED <<callVars, onPhotosChangedCallback, onAlbumsChangedCallback>>
  /\ UNCHANGED backendVars

\* ------------------------------------------------------------------------
\* One upload converted end to end: the viewer works, the album stays
\* ------------------------------------------------------------------------

E2ENext ==
  \/ \E f \in FileLists : AddPhotosFromFiles(f, "none", TRUE, MaxInFlight, nextPhotoId)
  \/ \E i \in 1..MaxInFlight : AddPhotoSaved(i, nextPhotoId)
  \/ \E i \in 1..MaxInFlight : AddAlbumSaved(i)
  \/ \E i \in 1..MaxInFlight : UploadGenerate(i)
  \/ GenProcessingSaved
  \/ GenReadySaved(TRUE)
  \/ GenFailedSaved
  \/ GenSubmitOk
  \/ GenSubmitFail
  \/ \E st \in StatusValues \cup Transient, e \in ErrorMsgs : GenStatusResponse(st, e)
  \/ \E res \in {"ok"} \cup Transient, u \in PlyUrls : GenResultResponse(res, u, TRUE)
  \/ \E d \in TimerDelays : GenSleepDone(d)

SpecE2E == PollInit /\ [][E2ENext]_vars

\* Every call the upload handler and generateSplatsForPhotos await resolves:
\* a save succeeds, a fetch is answered or fails, a timer fires, and the
\* event loop runs the continuation of an await that has settled.  Starting
\* an upload is the user's choice and carries no fairness.
E2EFairness ==
  /\ \A i \in 1..MaxInFlight :
       /\ WF_vars(AddPhotoSaved(i, nextPhotoId))
       /\ WF_vars(AddAlbumSaved(i))
       /\ WF_vars(UploadGenerate(i))
  /\ WF_vars(GenProcessingSaved)
  /\ WF_vars(GenReadySaved(TRUE))
  /\ WF_vars(GenFailedSaved)
  /\ WF_vars(GenSubmitOk \/ GenSubmitFail)
  /\ WF_vars(\E st \in StatusValues \cup Transient, e \in ErrorMsgs : GenStatusResponse(st, e))
  /\ WF_vars(\E res \in {"ok"} \cup Transient, u \in PlyUrls : GenResultResponse(res, u, TRUE))
  /\ WF_vars(\E d \in TimerDelays : GenSleepDone(d))

SpecE2EFair == PollInit /\ [][E2ENext]_vars /\ E2EFairness

\* ------------------------------------------------------------------------
\* Persistence faults inside generateSplatsForPhotos: the put request of
\* savePhotoToDB fails (request.onerror), so the promise that
\* updatePhotoSplatStatus awaits rejects.  The photo of the working set was
\* already mutated, nothing is stored and the subscriber is not called.
\* ------------------------------------------------------------------------

\* savePhotoToDB of updatePhotoSplatStatus(id, "processing") rejected: the
\* await inside the try block throws into the catch block
GenProcessingSaveFailed ==
  /\ gen.pc = "upd_processing"
  /\ LET n == Catch(photos, gen)
     IN /\ photos' = n.photos
        /\ gen' = n.gen
        /\ isGeneratingSplats' = n.flag
  /\ UNCHANGED <<albums, currentAlbumId, dbPhotos, dbAlbums, nextPhotoId, adds, switches, creates>>
  /\ UNCHANGED <<callVars, onPhotosChangedCallback, onAlbumsChangedCallback>>
  /\ UNCHANGED pollVars
  /\ UNCHANGED backendVars

\* savePhotoToDB of updatePhotoSplatStatus(id, "ready", url) rejected: the
\* await inside the try block throws into the catch block
GenReadySaveFailed ==
  /\ gen.pc = "upd_ready"
  /\ LET n == Catch(photos, gen)
     IN /\ photos' = n.photos
        /\ gen' = n.gen
        /\ isGeneratingSplats' = n.flag
        /\ wfr' = Release(wfr, gen, n.gen)
  /\ UNCHANGED <<albums, currentAlbumId, dbPhotos, dbAlbums, nextPhotoId, adds, switches, creates>>
  /\ UNCHANGED <<callVars, onPhotosChangedCallback, onAlbumsChangedCallback>>
  /\ UNCHANGED <<now, activeGenerations, nextRequestId, submits>>
  /\ UNCHANGED backendVars

\* savePhotoToDB of updatePhotoSplatStatus(id, "failed") rejected: the await
\* is in the catch block, so the rejection leaves the for loop and the
\* function; the assignment after the loop is not reached
GenFailedSaveFailed ==
  /\ gen.pc = "upd_failed"
  /\ gen' = IdleGen
  /\ wfr' = Release(wfr, gen, IdleGen)
  /\ UNCHANGED <<photos, isGeneratingSplats>>
  /\ UNCHANGED <<albums, currentAlbumId, dbPhotos, dbAlbums, nextPhotoId, adds, switches, creates>>
  /\ UNCHANGED <<callVars, onPhotosChangedCallback, onAlbumsChangedCallback>>
  /\ UNCHANGED <<now, activeGenerations, nextRequestId, submits>>
  /\ UNCHANGED backendVars

FaultNext ==
  \/ E2ENext
  \/ GenProcessingSaveFailed
  \/ GenReadySaveFailed
  \/ GenFailedSaveFailed

SpecFaults == PollInit /\ [][FaultNext]_vars

\* ------------------------------------------------------------------------
\* The application: uploads, album switches, album creation and the facade
\* ------------------------------------------------------------------------

\* the change handler of the album selector: the user picks an album of the
\* list and the handler calls switchAlbum(albumId); one pick at a time
SelectAlbum(a) ==
  /\ HasAlbum(albums, a)
  /\ SwitchAlbum(a, 1)

\* what the backend and the timers do to a job of the application: the job
\* ends at its first query or the query fails, and a timer that is set fires
\* after the whole budget
AppStatusAnswers == {"completed", "failed", "throw"}
AppResultAnswers == {"ok", "nonOK"}
AppPlyUrls == {"u"}

Next ==
  \/ \E f \in FileLists : AddPhotosFromFiles(f, "none", TRUE, 1, nextPhotoId)
  \/ \E i \in 1..MaxInFlight : AddPhotoSaved(i, nextPhotoId)
  \/ \E i \in 1..MaxInFlight : AddAlbumSaved(i)
  \/ \E i \in 1..MaxInFlight : UploadGenerate(i)
  \/ \E a \in AlbumIds : SelectAlbum(a)
  \/ \E i \in 1..MaxInFlight : SwitchLoaded(i)
  \/ \E a \in NewAlbumIds : CreateAlbum(a)
  \/ \E a \in NewAlbumIds : CreateSaved(a)
  \/ GenProcessingSaved
  \/ \E ok \in BOOLEAN : GenReadySaved(ok)
  \/ GenFailedSaved
  \/ GenSubmitOk
  \/ GenSubmitFail
  \/ \E st \in AppStatusAnswers : GenStatusResponse(st, "none")
  \/ \E res \in AppResultAnswers, u \in AppPlyUrls, ok \in BOOLEAN :
       GenResultResponse(res, u, ok)
  \/ GenSleepDone(DefaultTimeoutMs)

Spec == PollInit /\ [][Next]_vars

\* ------------------------------------------------------------------------
\* photoService called on its own: calls of addPhotosFromFiles (with and
\* without an album id), switchAlbum and createAlbum overlap freely
\* ------------------------------------------------------------------------
StoreNext ==
  \/ \E f \in FileLists, a \in AlbumIds \cup {"none"} :
       AddPhotosFromFiles(f, a, FALSE, MaxInFlight, nextPhotoId)
  \/ \E i \in 1..MaxInFlight : AddPhotoSaved(i, nextPhotoId)
  \/ \E i \in 1..MaxInFlight : AddAlbumSaved(i)
  \/ \E a \in AlbumIds : SwitchAlbum(a, MaxInFlight)
  \/ \E i \in 1..MaxInFlight : SwitchLoaded(i)
  \/ \E a \in NewAlbumIds : CreateAlbum(a)
  \/ \E a \in NewAlbumIds : CreateSaved(a)

SpecStore == PollInit /\ [][StoreNext]_vars

\* ------------------------------------------------------------------------
\* photoService used by one caller that awaits every call before the next:
\* the module is loaded over an empty database, initPhotoService runs, then
\* the exported operations (and initPhotoService once more)
\* ------------------------------------------------------------------------
UpdateStatuses == {"processing", "ready", "failed"}

\* the module after loading: const photos = [], albums = [],
\* currentAlbumId = null, no subscriber; the database holds nothing
LoadedInit ==
  /\ now = 0
  /\ activeGenerations = << >>
  /\ nextRequestId = 1
  /\ submits = {}
  /\ wfr = [r \in RequestIds |-> IdleCall]
  /\ photos = << >>
  /\ albums = << >>
  /\ currentAlbumId = "null"
  /\ dbPhotos = << >>
  /\ dbAlbums = << >>
  /\ nextPhotoId = 1
  /\ adds = << >>
  /\ switches = << >>
  /\ creates = {}
  /\ updates = << >>
  /\ initCall = [pc |-> "idle", runs |-> 0, album |-> "null"]
  /\ onPhotosChangedCallback = NoSubscriber
  /\ onAlbumsChangedCallback = NoSubscriber
  /\ FacadeInit
  /\ BackendInit

\* no call of the store is in progress
NoCall ==
  /\ adds = << >> /\ switches = << >> /\ creates = {} /\ updates = << >>
  /\ initCall.pc \in {"idle", "returned"}

\* initPhotoService has returned and no call is in progress
Idle == NoCall /\ initCall.pc = "returned"

SeqNext ==
  \/ NoCall /\ InitCall
  \/ InitAlbumsLoaded
  \/ InitDefaultSaved
  \/ InitPhotosLoaded
  \/ Idle /\ OnPhotosChanged
  \/ Idle /\ \E f \in FileLists, a \in AlbumIds \cup {"none"} :
                AddPhotosFromFiles(f, a, FALSE, 1, nextPhotoId)
  \/ AddPhotoSaved(1, nextPhotoId)
  \/ AddAlbumSaved(1)
  \/ Idle /\ \E a \in AlbumIds : SwitchAlbum(a, 1)
  \/ SwitchLoaded(1)
  \/ Idle /\ \E a \in NewAlbumIds : CreateAlbum(a)
  \/ \E a \in NewAlbumIds : CreateSaved(a)
  \/ Idle /\ \E id \in 1..MaxPhotos, st \in UpdateStatuses, u \in PlyUrls \cup {"none"} :
                UpdatePhotoSplatStatus(id, st, u, 1)
  \/ UpdateSaved(1)
  \/ UpdateReturned(1)

SpecSeq == LoadedInit /\ [][SeqNext]_vars

\* ------------------------------------------------------------------------
\* photoService with the id generator as it is: nothing compares the id of a
\* new photo with the ids in use, so the generated id is any id, new or used
\* ------------------------------------------------------------------------
IdsNext ==
  \/ \E f \in FileLists, a \in AlbumIds \cup {"none"}, id \in 1..MaxPhotos :
       AddPhotosFromFiles(f, a, FALSE, MaxInFlight, id)
  \/ \E i \in 1..MaxInFlight, id \in 1..MaxPhotos : AddPhotoSaved(i, id)
  \/ \E i \in 1..MaxInFlight : AddAlbumSaved(i)
  \/ \E a \in AlbumIds : SwitchAlbum(a, 1)
  \/ \E i \in 1..MaxInFlight : SwitchLoaded(i)

SpecIds == PollInit /\ [][IdsNext]_vars

\* ------------------------------------------------------------------------
\* The tracker with two jobs: submit, bind, poll, sweep
\* ------------------------------------------------------------------------
MaxOnTime == 1                           \* poll rounds of a job whose timer fires on time
Tracked == 1..2                          \* the jobs of SpecTracker
EntityIds == {"p1", "p2"}                \* photoId arguments of setPhotoId
LongBudget == 2 * StaleThreshold         \* a timeoutMs argument above the stale threshold
TrackerBudgets == {LongBudget}
TrackerStatusAnswers == {"throw", "completed", "failed"}
LateDelays == {0, StaleThreshold}        \* a timer fires on time, or this late

\* a setPhotoId that keeps the first binding
SetPhotoIdOnce(m, r, p) ==
  IF r \in DOMAIN m /\ m[r].photoId = "undefined"
  THEN [m EXCEPT ![r].photoId = p] ELSE m

\* const gen = activeGenerations.get(requestId); if (gen) gen.photoId = photoId
SetPhotoIdIn(m, r, p) ==
  IF r \in DOMAIN m THEN [m EXCEPT ![r].photoId = p] ELSE m

\* return activeGenerations.get(requestId)?.photoId
GetPhotoId(m, r) == IF r \in DOMAIN m THEN m[r].photoId ELSE "undefined"

\* return Array.from(activeGenerations.keys())
GetActiveGenerations(m) == DOMAIN m

\* a sweep that also drops the entries exactly at the threshold
CleanupStaleInclusive(m, t) ==
  [r \in {x \in DOMAIN m : ~(t - m[x].startTime >= StaleThreshold)} |-> m[r]]

\* for each entry: if (now - gen.startTime > staleThreshold) delete
CleanupStaleIn(m, t) ==
  [r \in {x \in DOMAIN m : ~(t - m[x].startTime > StaleThreshold)} |-> m[r]]

SetPhotoId(r, p) ==
  /\ activeGenerations' = SetPhotoIdIn(activeGenerations, r, p)
  /\ UNCHANGED <<now, nextRequestId, submits, wfr>>
  /\ UNCHANGED <<storeVars, facadeVars>>
  /\ UNCHANGED backendVars

CleanupStale ==
  /\ activeGenerations' = CleanupStaleIn(activeGenerations, now)
  /\ UNCHANGED <<now, nextRequestId, submits, wfr>>
  /\ UNCHANGED <<storeVars, facadeVars>>
  /\ UNCHANGED backendVars

\* the backoff timer of a call fires: on time for the first MaxOnTime rounds,
\* or late
TimerFires(r, d) ==
  /\ d = 0 => wfr[r].attempt <= MaxOnTime
  /\ SleepDone(r, d)

TrackerNext ==
  \/ \E k \in {"url", "blob"}, u \in ImageUrls : SubmitCall(k, u, Tracked)
  \/ \E s \in submits : SubmitOk(s, 0)
  \/ \E s \in submits : SubmitFail(s, 0)
  \/ \E r \in Tracked, T \in TrackerBudgets : WaitForResult(r, T, FALSE)
  \/ \E r \in Tracked, st \in TrackerStatusAnswers : StatusResponse(r, st, "none", 0)
  \/ \E r \in Tracked, res \in AppResultAnswers : ResultResponse(r, res, "u", 0)
  \/ \E r \in Tracked, d \in LateDelays : TimerFires(r, d)
  \/ \E r \in RequestIds, p \in EntityIds : SetPhotoId(r, p)
  \/ CleanupStale

SpecTracker == PollInit /\ [][TrackerNext]_vars

\* ------------------------------------------------------------------------
\* Properties of waitForResult (checked under SpecPoll)
\* ------------------------------------------------------------------------
Ended(w) == w.pc \in {"returned", "thrown"}

\* the error message the spec gives a failed job
FailureMessage(w) == IF w.lastErr = "none" THEN "Generation failed" ELSE w.lastErr

\* C2: a status observation 'failed' ends the call there: the job is out of
\* the tracker and the call has failed with the backend's message (or
\* 'Generation failed'), not with a timeout and without another query.
C2_FailedEndsCall ==
  \A r \in RequestIds :
    wfr[r].failedSeen =>
      /\ r \notin DOMAIN activeGenerations
      /\ wfr[r].pc = "thrown"
      /\ wfr[r].error = FailureMessage(wfr[r])

\* C3: a call that observed 'completed' issues exactly one result fetch over
\* the whole call and the job is out of the tracker when the call has ended;
\* a job observed 'failed' is out of the tracker and never gets a result fetch.
C3_OneFetchAndRemoved ==
  \A r \in RequestIds :
    /\ wfr[r].completedSeen => wfr[r].resultFetches = 1
    /\ (wfr[r].completedSeen /\ Ended(wfr[r])) => r \notin DOMAIN activeGenerations
    /\ wfr[r].failedSeen =>
         (r \notin DOMAIN activeGenerations /\ wfr[r].resultFetches = 0)

\* C4: a failed result fetch fails the call at once: no retry of the result
\* fetch, no further status query.
C4_ResultFailureIsHard ==
  \A r \in RequestIds :
    wfr[r].lastRes \in Transient =>
      (wfr[r].pc = "thrown" /\ wfr[r].error # "sharp_timeout"
         /\ wfr[r].resultFetches = 1)

\* C5: a call that saw only non-terminal observations can end only as a
\* timeout, at a loop test where the elapsed time has reached the budget; it
\* issued no result fetch and the job is still in the tracker.  No status
\* query is issued at a loop test where the elapsed time has reached the budget.
C5_TimeoutKeepsJob ==
  \A r \in RequestIds :
    /\ (Ended(wfr[r]) /\ ~wfr[r].completedSeen /\ ~wfr[r].failedSeen) =>
         /\ wfr[r].pc = "thrown"
         /\ wfr[r].error = "sharp_timeout"
         /\ wfr[r].checkedAt - wfr[r].start >= wfr[r].timeoutMs
         /\ wfr[r].resultFetches = 0
         /\ r \in DOMAIN activeGenerations
    /\ wfr[r].pc = "status" => wfr[r].checkedAt - wfr[r].start < wfr[r].timeoutMs

C5_Witness ==
  \E r \in RequestIds :
    /\ wfr[r].pc = "thrown" /\ wfr[r].error = "sharp_timeout"
    /\ wfr[r].attempt >= 1
    /\ wfr[r].lastObs \in {"pending", "processing"} \cup Transient
    /\ wfr[r].checkedAt - wfr[r].start = wfr[r].timeoutMs
    /\ r \in DOMAIN activeGenerations

\* C6: a status query that throws or is not OK leaves the tracker as it is,
\* calls no progress callback, issues no result fetch, surfaces no error and
\* puts the loop into its backoff sleep; the next query is issued only after
\* that sleep; the only error a call can end with is the timeout, so a later
\* 'completed' with a successful result fetch returns the result.
C6_TransientAbsorbed ==
  [][\A r \in RequestIds :
       /\ (wfr[r].pc = "status" /\ wfr'[r].pc # "status"
              /\ wfr'[r].lastObs \in Transient) =>
            /\ activeGenerations' = activeGenerations
            /\ wfr'[r].pc = "sleep"
            /\ wfr'[r].wakeAt = now' + wfr'[r].backoff
            /\ wfr'[r].backoff >= BackoffBase
            /\ ~wfr'[r].progressed
            /\ wfr'[r].resultFetches = wfr[r].resultFetches
            /\ wfr'[r].error = "none" /\ wfr'[r].result = "none"
            /\ wfr'[r].completedSeen = wfr[r].completedSeen
            /\ wfr'[r].failedSeen = wfr[r].failedSeen
       /\ (wfr[r].pc = "sleep" /\ wfr'[r].pc = "status") =>
            (now' >= wfr[r].wakeAt /\ wfr'[r].attempt = wfr[r].attempt + 1)
       /\ (wfr[r].pc = "result" /\ wfr[r].transientSeen /\ wfr'[r].lastRes = "ok") =>
            (wfr'[r].pc = "returned" /\ wfr'[r].result \in PlyUrls)
       /\ wfr'[r].pc = "thrown" => wfr'[r].error = "sharp_timeout"
    ]_vars

C6_Witness ==
  \E r \in RequestIds :
    /\ wfr[r].pc = "returned" /\ wfr[r].transientSeen
    /\ wfr[r].attempt >= 2 /\ wfr[r].result = "u"

\* C7: the wait after the k-th status attempt is min(5000, 1000 + 200 k):
\* 1200, 1400, 1600, 1800, 2000 for k = 1..5, never shorter than the wait
\* before it, 5000 from k = 20 on; the timer is set for that wait and the next
\* attempt is not started before it has passed.
C7_BackoffSchedule ==
  [][LET BackoffTable == <<1200, 1400, 1600, 1800, 2000>>
     IN
     \A r \in RequestIds :
       /\ wfr'[r].pc = "sleep" =>
            LET k == wfr'[r].attempt
                b == wfr'[r].backoff
            IN /\ k >= 1
               /\ b = (IF 1000 + 200 * k < 5000 THEN 1000 + 200 * k ELSE 5000)
               /\ k <= 5 => b = BackoffTable[k]
               /\ k >= 20 => b = 5000
               /\ b >= wfr[r].backoff
               /\ wfr[r].pc # "sleep" => wfr'[r].wakeAt = now' + b
       /\ (wfr[r].pc = "sleep" /\ wfr'[r].pc # "sleep") =>
            (now' >= wfr[r].wakeAt /\ wfr'[r].attempt <= wfr[r].attempt + 1)
    ]_vars

C7_Witness ==
  \E r \in RequestIds :
    /\ wfr[r].pc = "sleep" /\ wfr[r].attempt >= 21
    /\ wfr[r].backoff = 5000 /\ wfr[r].transientSeen

\* photos.find(p => p.id === photoId), for a photo that is in the list
InMemory(ps, id) == ps[FirstIdx(ps, id)]

\* C1: a facade job whose status queries were answered pending, pending,
\* processing, completed and whose result fetch returned url: while the job is
\* polled the photo is 'processing' in memory and in the store; when the call
\* returns, four status queries and one result fetch were issued, the job is
\* out of the tracker and the photo in memory is ready with splatUrl = url;
\* the save that follows stores that record.
C1_EndToEnd ==
  [][/\ gen'.pc = "poll" =>
          /\ Found(photos', gen'.cur)
          /\ InMemory(photos', gen'.cur).splatStatus = "processing"
          /\ dbPhotos'[gen'.cur].splatStatus = "processing"
     /\ (gen.pc = "idle" /\ gen'.pc = "upd_processing") =>
          /\ dbPhotos'[gen'.cur].splatStatus = "pending"
          /\ InMemory(photos, gen'.cur).splatStatus = "pending"
     /\ (gen.pc = "poll" /\ gen'.pc # "poll" /\ wfr'[gen.req].script = Len(Script)
           /\ wfr'[gen.req].lastRes = "ok") =>
          /\ gen'.pc = "upd_ready" /\ gen'.cur = gen.cur /\ gen'.req = gen.req
          /\ wfr'[gen.req].pc = "returned"
          /\ wfr'[gen.req].attempt = 4
          /\ wfr'[gen.req].resultFetches = 1
          /\ gen.req \notin DOMAIN activeGenerations'
          /\ InMemory(photos', gen.cur).splatStatus = "ready"
          /\ InMemory(photos', gen.cur).splatUrl = wfr'[gen.req].result
          /\ wfr'[gen.req].result \in PlyUrls
          /\ dbPhotos'[gen.cur].splatStatus = "processing"
     /\ (gen.pc = "upd_ready" /\ gen'.pc # "upd_ready"
           /\ wfr[gen.req].script = Len(Script)) =>
          /\ dbPhotos'[gen.cur].splatStatus = "ready"
          /\ dbPhotos'[gen.cur].splatUrl = wfr[gen.req].result
          /\ InMemory(photos', gen.cur) = dbPhotos'[gen.cur]
          /\ gen.req \notin DOMAIN activeGenerations'
    ]_vars

\* the call of the scenario has returned u and the facade is saving the photo
C1_Witness ==
  /\ gen.pc = "upd_ready" /\ gen.req \in RequestIds
  /\ wfr[gen.req].script = Len(Script)
  /\ wfr[gen.req].pc = "returned" /\ wfr[gen.req].result = "u"
  /\ wfr[gen.req].attempt = 4 /\ wfr[gen.req].resultFetches = 1
  /\ gen.saving.splatStatus = "ready" /\ gen.saving.splatUrl = "u"
  /\ now = 1200 + 1400 + 1600

\* C8: every change of a photo's splatStatus, in the working set and in the
\* photo store, is pending -> processing, processing -> ready or
\* processing -> failed.
C8_StatusOnlyAdvances ==
  [][LET Advance == {<<"pending", "processing">>, <<"processing", "ready">>,
                     <<"processing", "failed">>}
     IN
     /\ \A id \in DOMAIN dbPhotos :
          dbPhotos'[id].splatStatus # dbPhotos[id].splatStatus =>
            <<dbPhotos[id].splatStatus, dbPhotos'[id].splatStatus>> \in Advance
     /\ \A i \in DOMAIN photos, j \in DOMAIN photos' :
          (photos[i].id = photos'[j].id
             /\ photos'[j].splatStatus # photos[i].splatStatus) =>
            <<photos[i].splatStatus, photos'[j].splatStatus>> \in Advance
    ]_vars

\* C9: when no store operation is suspended midway, every photo of the
\* working set belongs to the current album.
C9_WorkingSetIsCurrentAlbum ==
  (adds = << >> /\ switches = << >> /\ creates = {}) =>
    \A i \in DOMAIN photos : photos[i].albumId = currentAlbumId

C11_FreshIds ==
  [][/\ (switches' = switches /\ Len(photos') = Len(photos) + 1) =>
          LET new == photos'[Len(photos')]
          IN /\ new.splatStatus = "pending"
             /\ \A i \in DOMAIN photos : photos[i].id # new.id
             /\ new.id \notin DOMAIN dbPhotos
             /\ \A k \in DOMAIN adds :
                  adds[k].pc = "savePhoto" => adds[k].saving.id # new.id
     /\ \A id \in DOMAIN dbPhotos : dbPhotos'[id] = dbPhotos[id]
     /\ \A id \in DOMAIN dbPhotos' \ DOMAIN dbPhotos :
          dbPhotos'[id].splatStatus = "pending"
    ]_vars

\* C12: the run of initPhotoService on the store without albums returns with
\* exactly one album in memory and exactly one in the albums store, the same
\* record, with photoCount 0, and it is the current album; no step of a later
\* run changes the albums store, and when that run returns the album list in
\* memory is the stored one, album for album.
C12_InitCreatesOneAlbum ==
  [][/\ (initCall.runs = 1 /\ initCall.pc # "returned" /\ initCall'.pc = "returned") =>
          /\ Len(albums') = 1
          /\ albums'[1].photoCount = 0
          /\ DOMAIN dbAlbums' = {albums'[1].id}
          /\ dbAlbums'[albums'[1].id] = albums'[1]
          /\ currentAlbumId' = albums'[1].id
     /\ (initCall.runs >= 2 /\ initCall.pc \notin {"idle", "returned"}) =>
          /\ dbAlbums' = dbAlbums
          /\ initCall'.pc = "returned" =>
               /\ Len(albums') = Cardinality(DOMAIN dbAlbums')
               /\ {albums'[i] : i \in DOMAIN albums'} =
                    {dbAlbums'[a] : a \in DOMAIN dbAlbums'}
    ]_vars

\* initPhotoService has run a second time, after photos were added, and the
\* default album is still the only album
C12_Witness ==
  /\ initCall.runs = 2 /\ initCall.pc = "returned"
  /\ Len(albums) = 1 /\ DOMAIN dbAlbums = {"default"}
  /\ albums[1].photoCount > 0
  /\ currentAlbumId = "default"

\* C13: updatePhotoSplatStatus(id, 'ready', url) for a photo of the working
\* set: the call sets that photo to ready / url in memory and changes no other
\* photo and no other field; when its save has succeeded the stored record of
\* the photo holds ready / url and equals the photo in memory, no other stored
\* record has changed, and the subscriber was called once, with the working set
\* that shows the photo ready / url.
C13_UpdateReady ==
  [][/\ (Len(updates') > Len(updates) /\ updates'[Len(updates')].pc = "save"
           /\ updates'[Len(updates')].status = "ready"
           /\ updates'[Len(updates')].splatUrl # "none") =>
          LET c == updates'[Len(updates')]
              k == FirstIdx(photos, c.photoId)
          IN /\ Len(photos') = Len(photos)
             /\ photos'[k] = [photos[k] EXCEPT !.splatStatus = "ready",
                                               !.splatUrl = c.splatUrl]
             /\ \A j \in DOMAIN photos : j # k => photos'[j] = photos[j]
             /\ dbPhotos' = dbPhotos
             /\ onPhotosChangedCallback' = onPhotosChangedCallback
     /\ \A i \in DOMAIN updates :
          (updates[i].pc = "save" /\ Len(updates') = Len(updates)
             /\ updates'[i].pc = "returned" /\ updates[i].status = "ready"
             /\ updates[i].splatUrl # "none") =>
            LET c == updates[i]
            IN /\ photos' = photos
               /\ Found(photos', c.photoId)
               /\ InMemory(photos', c.photoId).splatStatus = "ready"
               /\ InMemory(photos', c.photoId).splatUrl = c.splatUrl
               /\ dbPhotos'[c.photoId] = InMemory(photos', c.photoId)
               /\ \A x \in DOMAIN dbPhotos : x # c.photoId => dbPhotos'[x] = dbPhotos[x]
               /\ DOMAIN dbPhotos' = DOMAIN dbPhotos \cup {c.photoId}
               /\ onPhotosChangedCallback.set =>
                    /\ onPhotosChangedCallback'.calls =
                         (onPhotosChangedCallback.calls + 1) % NotifyWrap
                    /\ onPhotosChangedCallback'.last = photos'
    ]_vars

\* an update to ready / v of one of two photos has returned, the subscriber
\* holds the working set with that photo ready and the other one untouched
C13_Witness ==
  /\ Len(updates) = 1 /\ updates[1].pc = "returned"
  /\ updates[1].status = "ready" /\ updates[1].splatUrl = "v"
  /\ updates[1].saving.id = updates[1].photoId
  /\ onPhotosChangedCallback.set /\ onPhotosChangedCallback.last = photos
  /\ Len(photos) = 2
  /\ \E k \in DOMAIN photos : photos[k].splatStatus = "pending"
  /\ dbPhotos[updates[1].photoId].splatUrl = "v"

\* C14: updatePhotoSplatStatus for an id that is not in the working set
\* returns at once, without error, and leaves the working set, the album list,
\* both stores, the current album and the subscriber as they were; the caller
\* that runs on finds them unchanged as well.
C14_UpdateUnknownIsNoOp ==
  [][/\ (Len(updates') > Len(updates)
           /\ ~Found(photos, updates'[Len(updates')].photoId)) =>
          /\ updates'[Len(updates')].pc = "returned"
          /\ photos' = photos /\ albums' = albums
          /\ dbPhotos' = dbPhotos /\ dbAlbums' = dbAlbums
          /\ currentAlbumId' = currentAlbumId
          /\ onPhotosChangedCallback' = onPhotosChangedCallback
     /\ Len(updates') < Len(updates) =>
          /\ photos' = photos /\ albums' = albums
          /\ dbPhotos' = dbPhotos /\ dbAlbums' = dbAlbums
          /\ onPhotosChangedCallback' = onPhotosChangedCallback
    ]_vars

\* an update for a photo that is stored in another album than the current
\* one has returned without effect while a subscriber is registered
C14_Witness ==
  /\ Len(updates) = 1 /\ updates[1].pc = "returned"
  /\ updates[1].saving.id = 0
  /\ updates[1].photoId \in DOMAIN dbPhotos
  /\ dbPhotos[updates[1].photoId].splatStatus = "pending"
  /\ ~Found(photos, updates[1].photoId)
  /\ photos # << >>
  /\ onPhotosChangedCallback.set

\* C15: when the waitForResult call of the facade returns a result for the
\* photo it is converting, the facade saves that photo as ready with the
\* returned url, whatever the working set holds by then, and the save leaves
\* the stored record ready with that url.
C15_CompletionReachesStore ==
  [][/\ (gen.pc = "poll" /\ gen'.pc # "poll" /\ wfr[gen.req].pc = "result") =>
          /\ gen'.pc = "upd_ready" /\ gen'.cur = gen.cur
          /\ gen'.saving.id = gen.cur
          /\ gen'.saving.splatStatus = "ready"
          /\ gen'.saving.splatUrl = gen'.url
          /\ gen'.url \in PlyUrls
     /\ (gen.pc = "upd_ready" /\ gen'.pc # "upd_ready") =>
          /\ dbPhotos'[gen.cur].splatStatus = "ready"
          /\ dbPhotos'[gen.cur].splatUrl = gen.url
    ]_vars

\* C16: when submitBlob or waitForResult ends with an error for the photo the
\* facade is converting, the facade saves that photo as failed and, after the
\* save, goes on with the next photo of the batch (or ends); a stored photo is
\* 'processing' only while the facade is converting it.
C16_ErrorMarksFailed ==
  [][/\ ((gen.pc = "submit" /\ gen'.pc # "submit" /\ nextRequestId' = nextRequestId)
          \/ (gen.pc = "poll" /\ gen'.pc # "poll" /\ wfr[gen.req].pc = "sleep")) =>
          /\ gen'.pc = "upd_failed" /\ gen'.cur = gen.cur
          /\ gen'.saving.id = gen.cur
          /\ gen'.saving.splatStatus = "failed"
     /\ (gen.pc = "upd_failed" /\ gen'.pc # "upd_failed") =>
          /\ dbPhotos'[gen.cur].splatStatus = "failed"
          /\ IF gen.todo = << >>
             THEN gen'.pc = "idle" /\ ~isGeneratingSplats'
             ELSE gen'.cur = Head(gen.todo).id /\ gen'.todo = Tail(gen.todo)
     /\ \A id \in DOMAIN dbPhotos' :
          dbPhotos'[id].splatStatus = "processing" =>
            (gen'.cur = id /\ gen'.pc \in {"submit", "poll", "upd_ready", "upd_failed"})
    ]_vars

\* ------------------------------------------------------------------------
\* Properties of the tracker (checked under SpecTracker)
\* ------------------------------------------------------------------------

\* C17: a status query is issued for a requestId only while the tracker holds
\* its entry: after the entry was removed (by the loop on 'failed', by a
\* completed result fetch, or by cleanupStale) no further query is issued.
C17_NoQueryAfterRemoval ==
  [][\A r \in RequestIds :
       (wfr'[r].pc = "status" /\ wfr'[r].attempt # wfr[r].attempt /\ wfr[r].pc # "idle")
         => r \in DOMAIN activeGenerations
    ]_vars

\* the step is the terminal observation of the waitForResult call for r:
\* 'failed' was answered, or the result fetch after 'completed' succeeded
OwnEnd(r) ==
  \/ wfr[r].pc = "status" /\ wfr'[r].lastObs = "failed" /\ wfr'[r].pc = "sleep"
  \/ wfr[r].pc = "result" /\ wfr'[r].pc = "returned"

\* the step is a cleanupStale call that finds r older than the threshold
Swept(r) ==
  /\ CleanupStale
  /\ now - activeGenerations[r].startTime > StaleThreshold

\* C18 as stated: an entry leaves the tracker only on the terminal observation
\* of its own waitForResult call or in a cleanupStale call, and every other
\* step (submit, submitBlob, setPhotoId, timers, failed queries, the calls for
\* other jobs) leaves the entry exactly as it was.
C18_EntryUntouchedElsewhere ==
  [][\A r \in DOMAIN activeGenerations :
       IF r \in DOMAIN activeGenerations'
       THEN activeGenerations'[r] = activeGenerations[r]
       ELSE OwnEnd(r) \/ Swept(r)
    ]_vars

\* C18 (amended): an entry leaves the tracker only on the terminal observation
\* of its own waitForResult call or in a cleanupStale call; while it stays,
\* only setPhotoId for its own requestId changes it, and only its photoId.
C18_RemovedOnlyByOwnEndOrSweep ==
  [][\A r \in DOMAIN activeGenerations :
       IF r \in DOMAIN activeGenerations'
       THEN \/ activeGenerations'[r] = activeGenerations[r]
            \/ \E p \in EntityIds :
                 /\ SetPhotoId(r, p)
                 /\ activeGenerations'[r] = [activeGenerations[r] EXCEPT !.photoId = p]
       ELSE OwnEnd(r) \/ Swept(r)
    ]_vars

\* job 1 is still tracked and bound after its own call timed out, after a
\* failed result fetch of the call for job 2, and after job 2 completed
C18_Witness ==
  /\ DOMAIN activeGenerations = {1}
  /\ nextRequestId = 3
  /\ activeGenerations[1].photoId = "p1"
  /\ wfr[1].pc = "thrown" /\ wfr[1].transientSeen
  /\ wfr[2].pc = "returned" /\ wfr[2].lastRes = "ok" /\ wfr[2].resultFetches = 2

\* C19: on every tracker the service reaches, setPhotoId(r, p) twice equals
\* once; setPhotoId(r, p) then setPhotoId(r, q) makes getPhotoId(r) return q;
\* a bind changes no other field of the entry and no other entry; for a
\* requestId without entry it creates none and getPhotoId returns undefined.
C19_SetPhotoIdBinds ==
  \A r \in RequestIds, p \in EntityIds, q \in EntityIds :
    LET m  == activeGenerations
        m1 == SetPhotoIdIn(m, r, p)
        m2 == SetPhotoIdIn(m1, r, q)
    IN /\ SetPhotoIdIn(m1, r, p) = m1
       /\ GetActiveGenerations(m1) = GetActiveGenerations(m)
       /\ \A x \in DOMAIN m \ {r} : m1[x] = m[x]
       /\ r \in DOMAIN m =>
            /\ GetPhotoId(m1, r) = p
            /\ GetPhotoId(m2, r) = q
            /\ m1[r].imageUrl = m[r].imageUrl
            /\ m1[r].startTime = m[r].startTime
       /\ r \notin DOMAIN m =>
            /\ m1 = m
            /\ GetPhotoId(m1, r) = "undefined"

\* job 1 is bound to p2 at a time after 0; job 2 was registered and its
\* entry is gone, so that a bind for it finds no entry
C19_Witness ==
  /\ DOMAIN activeGenerations = {1}
  /\ nextRequestId = 3
  /\ GetPhotoId(activeGenerations, 1) = "p2"
  /\ GetPhotoId(activeGenerations, 2) = "undefined"
  /\ now > 0

\* C20: a submit or submitBlob call that ends either was accepted, and then
\* the tracker gains exactly the entry of the returned requestId, with the
\* image reference of the call, startTime = the time of the registration and
\* no photoId, every other entry as before; or it was not, and then the
\* tracker is unchanged.  The tracker gains an entry on no other step.
C20_RegisteredIffAccepted ==
  [][/\ \A s \in submits : s \notin submits' =>
          \/ /\ nextRequestId' = nextRequestId + 1
             /\ nextRequestId \notin DOMAIN activeGenerations
             /\ DOMAIN activeGenerations' = DOMAIN activeGenerations \cup {nextRequestId}
             /\ activeGenerations'[nextRequestId] =
                  [imageUrl |-> IF s.kind = "blob" THEN "blob:" \o s.imageUrl
                                ELSE s.imageUrl,
                   startTime |-> now', photoId |-> "undefined"]
             /\ \A x \in DOMAIN activeGenerations :
                  activeGenerations'[x] = activeGenerations[x]
          \/ /\ nextRequestId' = nextRequestId
             /\ activeGenerations' = activeGenerations
     /\ \A r \in DOMAIN activeGenerations' \ DOMAIN activeGenerations :
          /\ r = nextRequestId /\ nextRequestId' = nextRequestId + 1
          /\ \E s \in submits : s \notin submits'
    ]_vars

\* both calls were accepted, the second one (a blob) after time has passed
\* and after the entry of the first was bound
C20_Witness ==
  /\ submits = {}
  /\ DOMAIN activeGenerations = {1, 2}
  /\ activeGenerations[1] = [imageUrl |-> "img", startTime |-> 0, photoId |-> "p1"]
  /\ activeGenerations[2].imageUrl = "blob:img"
  /\ activeGenerations[2].startTime = now /\ now > 0
  /\ activeGenerations[2].photoId = "undefined"
  /\ wfr[2].pc = "idle"

\* ------------------------------------------------------------------------
\* photoService from the loading of the module on, one call at a time:
\* calls are made before initPhotoService as well as after it, and no album
\* is created but the default album
\* ------------------------------------------------------------------------
BootNext ==
  \/ NoCall /\ InitCall
  \/ InitAlbumsLoaded
  \/ InitDefaultSaved
  \/ InitPhotosLoaded
  \/ NoCall /\ \E f \in FileLists, a \in AlbumIds \cup {"none"} :
                 AddPhotosFromFiles(f, a, FALSE, 1, nextPhotoId)
  \/ AddPhotoSaved(1, nextPhotoId)
  \/ AddAlbumSaved(1)
  \/ NoCall /\ \E a \in AlbumIds : SwitchAlbum(a, 1)
  \/ SwitchLoaded(1)

SpecBoot == LoadedInit /\ [][BootNext]_vars

\* ------------------------------------------------------------------------
\* photoService with its two subscribers: after initPhotoService one caller
\* subscribes and makes one call at a time
\* ------------------------------------------------------------------------
NotifyNext ==
  \/ OnPhotosChanged
  \/ OnAlbumsChanged
  \/ NoCall /\ \E f \in FileLists, a \in AlbumIds \cup {"none"} :
                 AddPhotosFromFiles(f, a, FALSE, 1, nextPhotoId)
  \/ AddPhotoSaved(1, nextPhotoId)
  \/ AddAlbumSaved(1)
  \/ NoCall /\ \E a \in AlbumIds : SwitchAlbum(a, 1)
  \/ SwitchLoaded(1)
  \/ NoCall /\ \E a \in NewAlbumIds : CreateAlbum(a)
  \/ \E a \in NewAlbumIds : CreateSaved(a)
  \/ NoCall /\ \E id \in 1..MaxPhotos : UpdatePhotoSplatStatus(id, "ready", "u", 1)
  \/ UpdateSaved(1)
  \/ UpdateReturned(1)

SpecNotify == PollInit /\ [][NotifyNext]_vars

\* ------------------------------------------------------------------------
\* Persistence faults inside photoService: the put request of savePhotoToDB
\* or saveAlbumToDB fails (request.onerror), the promise rejects, and the
\* exported function, which has no try / catch, rejects to its caller.
\* What the function assigned before the await stays assigned.
\* ------------------------------------------------------------------------

\* savePhotoToDB(photo) of call i rejected: addPhotosFromFiles rejects; the
\* photo was pushed to photos before the await
AddPhotoSaveFailed(i) ==
  /\ i \in DOMAIN adds
  /\ adds[i].pc = "savePhoto"
  /\ adds' = RemoveAt(adds, i)
  /\ UNCHANGED <<photos, albums, currentAlbumId, dbPhotos, dbAlbums, nextPhotoId,
                 switches, creates, callVars, onPhotosChangedCallback,
                 onAlbumsChangedCallback>>
  /\ UNCHANGED <<pollVars, facadeVars>>
  /\ UNCHANGED backendVars

\* saveAlbumToDB(album) of call i rejected: addPhotosFromFiles rejects; the
\* album object was counted up before the await, the subscriber is not called
AddAlbumSaveFailed(i) ==
  /\ i \in DOMAIN adds
  /\ adds[i].pc = "saveAlbum"
  /\ adds' = RemoveAt(adds, i)
  /\ UNCHANGED <<photos, albums, currentAlbumId, dbPhotos, dbAlbums, nextPhotoId,
                 switches, creates, callVars, onPhotosChangedCallback,
                 onAlbumsChangedCallback>>
  /\ UNCHANGED <<pollVars, facadeVars>>
  /\ UNCHANGED backendVars

\* savePhotoToDB(photo) of the i-th direct updatePhotoSplatStatus call
\* rejected: the call rejects; the photo object was assigned before the await
UpdateSaveFailed(i) ==
  /\ i \in DOMAIN updates
  /\ updates[i].pc = "save"
  /\ updates' = RemoveAt(updates, i)
  /\ UNCHANGED <<photos, albums, currentAlbumId, dbPhotos, dbAlbums, nextPhotoId,
                 adds, switches, creates, initCall, onPhotosChangedCallback,
                 onAlbumsChangedCallback>>
  /\ UNCHANGED <<pollVars, facadeVars>>
  /\ UNCHANGED backendVars

\* one caller on the default album, one call at a time, every save of a
\* call succeeds or fails
StoreFaultNext ==
  \/ NoCall /\ \E f \in FileLists : AddPhotosFromFiles(f, "none", FALSE, 1, nextPhotoId)
  \/ AddPhotoSaved(1, nextPhotoId)
  \/ AddPhotoSaveFailed(1)
  \/ AddAlbumSaved(1)
  \/ AddAlbumSaveFailed(1)
  \/ NoCall /\ \E id \in 1..MaxPhotos, st \in UpdateStatuses, u \in PlyUrls \cup {"none"} :
                 UpdatePhotoSplatStatus(id, st, u, 1)
  \/ UpdateSaved(1)
  \/ UpdateSaveFailed(1)
  \/ UpdateReturned(1)

SpecStoreFaults == PollInit /\ [][StoreFaultNext]_vars

\* ------------------------------------------------------------------------
\* Properties of the albums (checked under SpecBoot)
\* ------------------------------------------------------------------------

\* the number of stored photos of album a
Persisted(db, a) == Cardinality({i \in DOMAIN db : db[i].albumId = a})

\* C21: when no addPhotosFromFiles call is in progress, the photoCount of
\* every album, in memory and in its stored record, is the number of stored
\* photos of that album.
C21_CountIsPersisted ==
  adds = << >> =>
    \A i \in DOMAIN albums :
      /\ albums[i].photoCount = Persisted(dbPhotos, albums[i].id)
      /\ albums[i].photoCount > 0 => albums[i].id \in DOMAIN dbAlbums
      /\ albums[i].id \in DOMAIN dbAlbums =>
           dbAlbums[albums[i].id].photoCount = albums[i].photoCount

\* the ids of the photos accepted for album a so far: the stored ones and
\* those of the calls in progress
AcceptedFor(db, q, a) ==
  {i \in DOMAIN db : db[i].albumId = a}
    \cup UNION {{q[c].newPhotos[k].id : k \in DOMAIN q[c].newPhotos} :
                 c \in {x \in DOMAIN q : q[x].target = a}}

\* the cover of album a in the list als (0: unset, or no such album)
CoverOf(als, a) == IF HasAlbum(als, a) THEN AlbumOf(als, a).coverUrl ELSE 0

\* C22: the cover of an album, once set, never changes; a cover that is set
\* is the first photo ever accepted for the album; and when no
\* addPhotosFromFiles call is in progress an album without cover has no
\* accepted photo.
C22_CoverSetOnce ==
  [][\A a \in AlbumIds :
       /\ CoverOf(albums, a) # 0 => CoverOf(albums', a) = CoverOf(albums, a)
       /\ CoverOf(albums', a) # 0 =>
            \A i \in AcceptedFor(dbPhotos', adds', a) : CoverOf(albums', a) <= i
       /\ (adds' = << >> /\ HasAlbum(albums', a) /\ CoverOf(albums', a) = 0) =>
            AcceptedFor(dbPhotos', adds', a) = {}
    ]_vars

\* ------------------------------------------------------------------------
\* More properties of waitForResult (checked under SpecPoll)
\* ------------------------------------------------------------------------

\* C23: a call has one request outstanding at most.  A status query is
\* issued at the start of the call or when the backoff timer of the previous
\* attempt fires, not before its wake-up time, and then the attempt counter
\* goes up by one; while a status query is outstanding the only step of the
\* call is the processing of its answer (to the result fetch, or to the
\* backoff of this attempt); a result fetch is issued only by the answer of
\* a status query and ends in the return or in the backoff.
C23_OneRequestOutstanding ==
  [][\A r \in RequestIds :
       LET w == wfr[r]
           w2 == wfr'[r]
       IN /\ w2.attempt # w.attempt =>
               /\ w2.attempt = w.attempt + 1
               /\ w2.pc = "status"
               /\ \/ w.pc = "idle"
                  \/ w.pc = "sleep" /\ now' >= w.wakeAt
          /\ (w.pc = "status" /\ w2 # w) =>
               /\ w2.pc \in {"sleep", "result"}
               /\ w2.attempt = w.attempt
               /\ w2.pc = "sleep" => w2.wakeAt = now' + Backoff(w.attempt)
          /\ (w.pc = "result" /\ w2 # w) =>
               /\ w2.pc \in {"sleep", "returned"}
               /\ w2.attempt = w.attempt
               /\ w2.pc = "sleep" => w2.wakeAt = now' + Backoff(w.attempt)
          /\ (w2.pc = "result" /\ w.pc # "result") => w.pc = "status"
          /\ (w.pc = "sleep" /\ w2 # w) => w2.pc \in {"status", "thrown"}
    ]_vars

\* the third query of a call is outstanding, after a query that failed, a
\* result fetch that failed and a timer that fired late
C23_Witness ==
  \E r \in RequestIds :
    /\ wfr[r].pc = "status" /\ wfr[r].attempt = 3
    /\ wfr[r].transientSeen /\ wfr[r].lastRes \in Transient
    /\ now > wfr[r].wakeAt

\* C24: a waitForResult call that was started ends, by its return or by an
\* Error, whatever the backend answers, when every request is answered or
\* fails and every timer fires; and no status query is issued at a time at
\* which the elapsed time has reached the budget.
C24_CallTerminates ==
  /\ \A r \in Polled : (wfr[r].pc # "idle") ~> Ended(wfr[r])
  /\ [][\A r \in RequestIds :
         wfr'[r].attempt # wfr[r].attempt =>
           now' - wfr'[r].start < wfr'[r].timeoutMs]_vars

\* a call has ended by its timeout after it saw a failed query, a failed
\* result fetch and the status 'failed'
C24_Witness ==
  \E r \in Polled :
    /\ wfr[r].pc = "thrown" /\ wfr[r].error = "sharp_timeout"
    /\ wfr[r].timeoutMs = DefaultTimeoutMs
    /\ wfr[r].transientSeen /\ wfr[r].attempt >= 3
    /\ now - wfr[r].start >= DefaultTimeoutMs

\* ------------------------------------------------------------------------
\* Properties of the subscribers (checked under SpecNotify)
\* ------------------------------------------------------------------------

\* the subscriber cb, if there is one, is called once in this step, with snapshot
Delivered(cb, cb2, snapshot) ==
  cb.set => (cb2.calls = (cb.calls + 1) % NotifyWrap /\ cb2.last = snapshot)

\* C25: the step that completes an addPhotosFromFiles call that accepted a
\* photo, a switchAlbum call or a successful updatePhotoSplatStatus call
\* delivers the working set to the photos subscriber; the step that completes
\* a createAlbum call, or an addPhotosFromFiles call that changed an album,
\* delivers the album list to the albums subscriber.
C25_SnapshotOnEveryMutation ==
  [][/\ (\/ Len(adds') < Len(adds)
         \/ Len(switches') < Len(switches)
         \/ \E i \in DOMAIN updates :
              updates[i].pc = "save" /\ updates'[i].pc = "returned") =>
          Delivered(onPhotosChangedCallback, onPhotosChangedCallback', photos')
     /\ (\/ creates' # creates /\ creates' \subseteq creates
         \/ \E i \in DOMAIN adds :
              /\ adds[i].pc = "saveAlbum" /\ adds[i].newPhotos # << >>
              /\ Len(adds') < Len(adds)) =>
          Delivered(onAlbumsChangedCallback, onAlbumsChangedCallback', albums')
    ]_vars

\* ------------------------------------------------------------------------
\* The staleness sweep (checked under SpecTracker)
\* ------------------------------------------------------------------------
\* thresholds a caller of the sweep may ask for
MaxAges == {BackoffBase, StaleThreshold}

\* C26: for every threshold maxAgeMs the caller supplies, the sweep removes
\* exactly the entries whose age now - startTime is above maxAgeMs and leaves
\* every other entry as it was; an entry whose age equals maxAgeMs is kept.
C26_SweepByThreshold ==
  \A maxAgeMs \in MaxAges :
    LET swept == CleanupStaleIn(activeGenerations, now)
    IN /\ DOMAIN swept =
            {r \in DOMAIN activeGenerations :
               now - activeGenerations[r].startTime <= maxAgeMs}
       /\ \A r \in DOMAIN swept : swept[r] = activeGenerations[r]

\* ------------------------------------------------------------------------
\* Properties of generateSplatsForPhotos (checked under Spec)
\* ------------------------------------------------------------------------

\* C27: an upload that finds isGeneratingSplats set leaves the running
\* invocation as it is; the flag is set while an invocation is suspended; and
\* the invocation leaves a photo, for the next one or for its end, only when
\* no waitForResult call for the photo's job is left and the stored status of
\* the photo is ready or failed.
C27_OneJobAtATime ==
  [][/\ (isGeneratingSplats /\ Len(adds') < Len(adds)) => gen' = gen
     /\ gen'.pc # "idle" => isGeneratingSplats'
     /\ (gen.cur # 0 /\ gen'.cur # gen.cur) =>
          /\ \A r \in RequestIds : wfr'[r].pc = "idle"
          /\ gen.cur \in DOMAIN dbPhotos'
          /\ dbPhotos'[gen.cur].splatStatus \in {"ready", "failed"}
     /\ (gen'.pc = "submit" /\ gen.pc # "submit") =>
          \A id \in DOMAIN dbPhotos' \ {gen'.cur} :
            dbPhotos'[id].splatStatus # "processing"
    ]_vars

\* ------------------------------------------------------------------------
\* Properties of generateSplatsForPhotos under persistence faults
\* (checked under SpecFaults)
\* ------------------------------------------------------------------------

\* C28: whenever no invocation of generateSplatsForPhotos is running, the
\* flag isGeneratingSplats is false: an invocation that set the flag clears
\* it before it ends, also when a save of updatePhotoSplatStatus fails in
\* the loop body or in the error handler
C28_FlagClearedWhenIdle ==
  gen.pc = "idle" => ~isGeneratingSplats

\* ------------------------------------------------------------------------
\* Progress of uploaded photos (checked under SpecE2EFair)
\* ------------------------------------------------------------------------

\* C29: every photo accepted by an upload eventually leaves the status
\* "pending", the photos of a batch uploaded while an earlier batch is
\* being generated included
C29_PendingEventuallyLeft ==
  \A id \in 1..MaxPhotos :
    (id \in DOMAIN dbPhotos /\ dbPhotos[id].splatStatus = "pending")
      ~> (id \in DOMAIN dbPhotos /\ dbPhotos[id].splatStatus # "pending")

\* ------------------------------------------------------------------------
\* Referential integrity of stored photos (checked under SpecSeq)
\* ------------------------------------------------------------------------

\* C30: the albumId of every stored photo is the id of an album of the
\* albums collection, whatever sequence of initPhotoService, createAlbum,
\* switchAlbum and addPhotosFromFiles calls has run
C30_PhotoAlbumExists ==
  \A id \in DOMAIN dbPhotos :
    \/ HasAlbum(albums, dbPhotos[id].albumId)
    \/ \E a \in DOMAIN dbAlbums : dbAlbums[a].id = dbPhotos[id].albumId

\* ------------------------------------------------------------------------
\* photoService under persistence faults (checked under SpecStoreFaults)
\* ------------------------------------------------------------------------

\* C31: after a call of addPhotosFromFiles or updatePhotoSplatStatus has
\* ended, also by a failed save, the working set holds no photo and no
\* splatStatus / splatUrl that is not stored, and the photoCount of every
\* album is the number of stored photos of that album
C31_MemoryMatchesStore ==
  NoCall =>
    /\ \A i \in DOMAIN photos :
         /\ photos[i].id \in DOMAIN dbPhotos
         /\ dbPhotos[photos[i].id] = photos[i]
    /\ \A i \in DOMAIN albums :
         albums[i].photoCount = Persisted(dbPhotos, albums[i].id)

\* ------------------------------------------------------------------------
\* Properties of the backend submit handlers (checked under SpecBackend)
\* ------------------------------------------------------------------------

\* C32: once a submit handler (by URL or by file) has inserted its job row
\* and has responded, the row is terminal: 'completed' with a ply_url, which
\* the result endpoint then serves, exactly when the answer was 200, and
\* 'failed' after every other answer; no row of a handler that has responded
\* is left 'processing'
C32_RowTerminalAfterResponse ==
  \A h \in HandlerIds :
    (handlers[h].pc = "responded" /\ h \in DOMAIN sharp_jobs) =>
      IF handlers[h].response = 200
      THEN /\ sharp_jobs[h].status = "completed"
           /\ sharp_jobs[h].ply_url # "none"
           /\ ResultHandler(sharp_jobs, h) = [code |-> 200, ply_url |-> sharp_jobs[h].ply_url]
      ELSE sharp_jobs[h].status = "failed"

====
